---- MODULE Spec2Model ----
(***************************************************************************)
(* Verification model of mat-dp-pipeline: the hierarchy model              *)
(* (StandardDataFormat), the overlay resolver (flatten_hierarchy), the     *)
(* year interpolator (to_processable_input), the calculation engine        *)
(* (calculate) and the result index (PipelineOutput).                      *)
(*                                                                         *)
(* Tables (pandas DataFrame / Series) are modelled positionally, as pandas *)
(* stores them: a sequence of row labels, a sequence of column labels and  *)
(* a matrix of values.  Row labels are tuples of naturals (a MultiIndex    *)
(* entry), column labels are naturals.  Labels stand for names in          *)
(* ascending order, so sorting labels is sorting names.  A missing value   *)
(* (NaN) is the number NaN below; every other value is a natural.          *)
(***************************************************************************)
EXTENDS Integers, Sequences, FiniteSets, TLC

VARIABLES
    calcIn,      \* the ProcessableInput handed to calculate
    calcOut,     \* what calculate returned (or that it raised)
    calcFlat,    \* what calculate of calculation.py returned (or that it raised)
    sdfDirs,     \* load: number of sub-directories of the input directory
    sdfBuilt,    \* load: what dfs returned for the sub-directories read so far
    sdfLast,     \* load: the last StandardDataFormat(...) call and its outcome
    sdfRoot,     \* load: what load returned (or raised)
    sdfYielded,  \* what list(flatten_hierarchy(load(...))) gave
    flatIn,      \* dfs: the bundle inherited by the node being visited (inpt)
    flatNode,    \* dfs: the node being visited (root)
    flatOut,     \* dfs: the bundle after the node was merged (overlaid)
    flatDepth,   \* dfs: depth of the node being visited
    interpLeaf,  \* interpolation: the single-leaf hierarchy being processed
    interpBundle,\* interpolation: what flatten_hierarchy yielded for it
    interpOut,   \* interpolation: what to_processable_input yielded (or raised)
    outData,     \* result index: the list handed to PipelineOutput(...)
    outIndex,    \* result index: the PipelineOutput object's fields
    outLast,     \* result index: the last query made and what it returned
    pipeTree,    \* pipeline(): the hierarchy sdf.load returned
    pipeFlat,    \* pipeline(): what the flatten_hierarchy generator gives
    pipeLast,    \* pipeline(): the bundle consumed last and what it gave
    pipeProcessed, \* pipeline(): the list `processed`
    pipeResult,  \* pipeline(): the PipelineOutput returned (or what was raised)
    saveTree,    \* save: the hierarchy h
    saveDir,     \* save: the directory h.save(dir) wrote, dir / h.name
    saveLoaded   \* save: what load(dir / h.name) returned (or raised)

calcVars == <<calcIn, calcOut, calcFlat>>
sdfVars == <<sdfDirs, sdfBuilt, sdfLast, sdfRoot, sdfYielded>>
flatVars == <<flatIn, flatNode, flatOut, flatDepth>>
interpVars == <<interpLeaf, interpBundle, interpOut>>
outVars == <<outData, outIndex, outLast>>
pipeVars == <<pipeTree, pipeFlat, pipeLast, pipeProcessed, pipeResult>>
saveVars == <<saveTree, saveDir, saveLoaded>>
vars == <<calcVars, sdfVars, flatVars, interpVars, outVars, pipeVars, saveVars>>

----------------------------------------------------------------------------
(* Bounds of the model *)

NumTechs == 2        \* technologies (Category, Specific) in the universe
NumResources == 2    \* resources in the universe
NumIndicators == 2   \* indicators in the universe
NumYears == 3        \* years 1..NumYears besides the base year 0
MaxChildren == 2     \* sub-directories of the input directory
MaxDepth == 2        \* nodes on the root-to-leaf path that dfs follows
MaxSeed == 2         \* value tables are drawn from 1..MaxSeed variants
NumPaths == 2        \* leaf paths with outputs in a PipelineOutput
NumOutputYears == 2  \* years with outputs in a PipelineOutput
MaxOutputs == 2      \* length of the list handed to PipelineOutput(...)

----------------------------------------------------------------------------
(* Values and labels *)

NaN == -1

Idle == [status |-> "idle"]
NoOutput == [status |-> "none"]
ValueError == [status |-> "ValueError"]

Range(s) == {s[i] : i \in DOMAIN s}

\* The technologies, in ascending (Category, Specific) order: two per Category.
TechOf(i) == <<(i + 1) \div 2, 2 - (i % 2)>>
Techs == {TechOf(i) : i \in 1..NumTechs}
Resources == 1..NumResources
Indicators == 1..NumIndicators

RECURSIVE LexLess(_, _)
LexLess(a, b) ==
    IF a = <<>> THEN b # <<>>
    ELSE IF b = <<>> THEN FALSE
    ELSE IF a[1] # b[1] THEN a[1] < b[1]
    ELSE LexLess(Tail(a), Tail(b))

\* Ascending sequence of a finite set of tuple labels (Index.sort_values).
RECURSIVE SortLabels(_)
SortLabels(S) ==
    IF S = {} THEN <<>>
    ELSE LET m == CHOOSE x \in S : \A y \in S : x = y \/ LexLess(x, y)
         IN <<m>> \o SortLabels(S \ {m})

\* Ascending sequence of a finite set of naturals.
RECURSIVE SortNats(_)
SortNats(S) ==
    IF S = {} THEN <<>>
    ELSE LET m == CHOOSE x \in S : \A y \in S : x <= y
         IN <<m>> \o SortNats(S \ {m})

\* All orderings of all subsets of S with at least `least` elements.
Arrangements(S, least) ==
    UNION {{q \in [1..n -> S] : \A i, j \in 1..n : i # j => q[i] # q[j]} :
           n \in least..Cardinality(S)}

\* Position of a label in a sequence of labels (labels are unique).
Pos(seq, x) == CHOOSE i \in DOMAIN seq : seq[i] = x

Mul(a, b) == IF a = NaN \/ b = NaN THEN NaN ELSE a * b

\* Label-based reads of a table and of a series; NaN where the label is absent.
Cell(df, row, col) ==
    IF row \in Range(df.index) /\ col \in Range(df.columns)
    THEN df.values[Pos(df.index, row)][Pos(df.columns, col)]
    ELSE NaN

At(s, label) ==
    IF label \in Range(s.index) THEN s.values[Pos(s.index, label)] ELSE NaN

----------------------------------------------------------------------------
(* Calculation engine: pipeline/calculation.py *)

\* DataFrame.mul(Series, axis="index"): when the two indexes are not equal
\* both sides are aligned on the sorted union of the labels, and a side that
\* lacks a label contributes NaN.
MulPositional(df, s) ==
    [index |-> df.index, columns |-> df.columns,
     values |-> [i \in DOMAIN df.index |->
                   [j \in DOMAIN df.columns |->
                      Mul(df.values[i][j],
                          IF i \in DOMAIN s.values THEN s.values[i] ELSE NaN)]]]

MulIndex(df, s) ==
    LET idx == IF df.index = s.index THEN df.index
               ELSE SortLabels(Range(df.index) \cup Range(s.index))
    IN [index |-> idx, columns |-> df.columns,
        values |-> [i \in DOMAIN idx |->
                      [j \in DOMAIN df.columns |->
                         Mul(Cell(df, idx[i], df.columns[j]), At(s, idx[i]))]]]

\* itertools.product(indicators.columns, intensities.index) as (ind, *tech).
EmissionsIndex(indColumns, techIndex) ==
    [p \in 1..(Len(indColumns) * Len(techIndex)) |->
        <<indColumns[((p - 1) \div Len(techIndex)) + 1]>>
            \o techIndex[((p - 1) % Len(techIndex)) + 1]]

\* np.einsum("ij,jk->kij", rr, ind).reshape(nrows, -1), flattened row-major:
\* the entry for (k, i, j) sits at (k * nI + i) * nJ + j (0-based).
EinsumFlat(rr, ind, nI, nJ, nK) ==
    [p \in 1..(nK * nI * nJ) |->
        LET k == (p - 1) \div (nI * nJ)
            i == ((p - 1) % (nI * nJ)) \div nJ
            j == (p - 1) % nJ
        IN Mul(rr[i + 1][j + 1], ind[j + 1][k + 1])]

calculate(inpt) ==
    LET rr == MulIndex(inpt.intensities, inpt.targets)
        index == EmissionsIndex(inpt.indicators.columns, inpt.intensities.index)
        nI == Len(rr.index)
        nJ == Len(rr.columns)
        nK == Len(inpt.indicators.columns)
    IN  \* einsum needs the shared axis j to have one length on both sides
        IF nJ # Len(inpt.indicators.index) THEN ValueError
        \* reshape(len(index), -1) and the DataFrame constructor need
        \* len(index) rows of len(intensities.columns) values
        ELSE IF Len(index) = 0 \/ nK * nI * nJ # Len(index) * nJ THEN ValueError
        ELSE LET flat == EinsumFlat(rr.values, inpt.indicators.values, nI, nJ, nK)
             IN [status |-> "ok",
                 required_resources |-> rr,
                 emissions |->
                    [index |-> index,
                     columns |-> inpt.intensities.columns,
                     values |-> [r \in DOMAIN index |->
                                   [c \in 1..nJ |-> flat[(r - 1) * nJ + c]]]]]

----------------------------------------------------------------------------
(* Calculation engine of calculation.py *)

\* sum(axis=0): the values of each column added up, missing ones skipped.
RECURSIVE SumValid(_)
SumValid(values) ==
    IF values = <<>> THEN 0
    ELSE (IF Head(values) = NaN THEN 0 ELSE Head(values)) + SumValid(Tail(values))

SumRows(df) ==
    [index |-> df.columns,
     values |-> [j \in DOMAIN df.columns |->
                   SumValid([i \in DOMAIN df.index |-> df.values[i][j]])]]

\* Series.mul taken by position.
SeriesMulPositional(a, b) ==
    [index |-> a.index,
     values |-> [i \in DOMAIN a.index |->
                   Mul(a.values[i], IF i \in DOMAIN b.values THEN b.values[i] ELSE NaN)]]

\* Series.mul(other): aligned on the labels; when the two indexes are not
\* equal the result has their sorted union, NaN where either lacks the label.
SeriesMul(a, b) ==
    LET idx == IF a.index = b.index THEN a.index
               ELSE SortNats(Range(a.index) \cup Range(b.index))
    IN [index |-> idx,
        values |-> [i \in DOMAIN idx |-> Mul(At(a, idx[i]), At(b, idx[i]))]]

\* inpt.indicators[indicator]: one column, as a series over the resources.
IndicatorColumn(indicators, indicator) ==
    [index |-> [i \in DOMAIN indicators.index |-> indicators.index[i][1]],
     values |-> [i \in DOMAIN indicators.index |->
                   indicators.values[i][Pos(indicators.columns, indicator)]]]

\* calculate: emissions are pd.concat(emissions_dict).unstack(level=0), rows
\* the resources and columns the indicators, both ascending.
calculation_calculate(inpt) ==
    LET required_resources == MulIndex(inpt.intensities, inpt.targets)
        names == inpt.indicators.columns
        emissions_dict ==
            [c \in DOMAIN names |->
                SeriesMul(SumRows(required_resources),
                          IndicatorColumn(inpt.indicators, names[c]))]
    IN  \* pd.concat of an empty dict
        IF names = <<>> THEN ValueError
        ELSE LET resources == SortNats(Range(emissions_dict[1].index))
                 columns == SortNats(Range(names))
             IN [status |-> "ok",
                 required_resources |-> required_resources,
                 emissions |->
                    [index |-> [i \in DOMAIN resources |-> <<resources[i]>>],
                     columns |-> columns,
                     values |-> [i \in DOMAIN resources |->
                                   [c \in DOMAIN columns |->
                                      At(emissions_dict[Pos(names, columns[c])],
                                         resources[i])]]]]

----------------------------------------------------------------------------
(* Hierarchy model: standard_data_format.py *)

None == [status |-> "None"]
Ignored == [status |-> "ignored"]
AssertionError == [status |-> "AssertionError"]
EmptyFrame == [index |-> <<>>, columns |-> <<>>, values |-> <<>>]

has(item) == item # None

\* DataFrame.empty: some axis has length 0.
IsEmpty(df) == Len(df.index) = 0 \/ Len(df.columns) = 0

\* validate_yearly_keys with the subset test turned around.
validate_yearly_keys_reversed(base, yearly) ==
    \A year \in DOMAIN yearly : Range(base.index) \subseteq Range(yearly[year].index)

\* validate_yearly_keys: every yearly table's keys are among the base keys.
validate_yearly_keys(base, yearly) ==
    \A year \in DOMAIN yearly : Range(yearly[year].index) \subseteq Range(base.index)

\* The leaf check with "or" in place of "exactly one".
LeafCheckEitherOr(node) == has(node.targets) \/ Len(node.children) > 0

\* has(targets) != (len(children) > 0)
LeafCheck(node) == has(node.targets) # (Len(node.children) > 0)

\* StandardDataFormat.validate, run by __post_init__: the message of the
\* first failing check, or "ok".  The unit check that follows only logs a
\* warning and never fails the construction.
SdfValidate(node) ==
    IF ~LeafCheck(node)
        THEN "SDF must either have children in the hierarchy or defined targets (leaf level)"
    ELSE IF ~(has(node.intensities) \/ ~has(node.intensities_yearly))
        THEN "No base intensities, while yearly files provided!"
    ELSE IF ~(has(node.indicators) \/ ~has(node.indicators_yearly))
        THEN "No base indicators, while yearly files provided!"
    ELSE IF ~validate_yearly_keys(node.intensities, node.intensities_yearly)
        THEN "Yearly file introduces new items!"
    ELSE IF ~validate_yearly_keys(node.indicators, node.indicators_yearly)
        THEN "Yearly file introduces new items!"
    ELSE "ok"

\* The constructor: the node itself, or the ValueError validate raised.
StandardDataFormat(node) ==
    IF SdfValidate(node) = "ok" THEN node
    ELSE [status |-> "ValueError", message |-> SdfValidate(node)]

IsNode(x) == "name" \in DOMAIN x
is_leaf(node) == node.targets # None

\* Rows of a after rows of b (pd.concat of frames with the same columns).
ConcatRows(a, b) ==
    IF Len(a.index) = 0 THEN b
    ELSE IF Len(b.index) = 0 THEN a
    ELSE [index |-> a.index \o b.index, columns |-> a.columns,
          values |-> a.values \o b.values]

\* groupby(level=(0, 1)).last(): one row per key, keys ascending, each column
\* holding the last value of the group that is not missing.
LastValid(df, key, j) ==
    LET hits == {i \in DOMAIN df.index : df.index[i] = key /\ df.values[i][j] # NaN}
    IN IF hits = {} THEN NaN
       ELSE df.values[CHOOSE i \in hits : \A h \in hits : h <= i][j]

GroupLast(df) ==
    LET keys == SortLabels(Range(df.index))
    IN [index |-> keys, columns |-> df.columns,
        values |-> [i \in DOMAIN keys |->
                      [j \in DOMAIN df.columns |-> LastValid(df, keys[i], j)]]]

\* What load's dfs builds from one directory: `files` are the tables read from
\* the directory (each intensities file split into its resource columns,
\* `table`, and its metadata columns, `meta`), `children` the nodes built from
\* the sub-directories that were not ignored.
RECURSIVE ConcatAll(_)
ConcatAll(frames) ==
    IF frames = <<>> THEN EmptyFrame
    ELSE ConcatRows(Head(frames), ConcatAll(Tail(frames)))

LoadTechMeta(files) ==
    LET years == SortNats(DOMAIN files.techs_yearly)
        all_intensities == [i \in DOMAIN years |-> files.techs_yearly[years[i]]]
                              \o <<files.techs>>
        all_meta == SelectSeq([i \in DOMAIN all_intensities |-> all_intensities[i].meta],
                              LAMBDA m : ~IsEmpty(m))
    IN IF all_meta # <<>> THEN GroupLast(ConcatAll(all_meta)) ELSE EmptyFrame

\* The constructor arguments load's dfs passes for one directory.
NodeArgs(files, children) ==
    [name |-> files.name,
     intensities |-> files.techs.table,
     intensities_yearly |->
        [y \in DOMAIN files.techs_yearly |-> files.techs_yearly[y].table],
     indicators |-> files.indicators,
     indicators_yearly |-> files.indicators_yearly,
     targets |-> files.targets,
     children |-> children,
     tech_meta |-> LoadTechMeta(files)]

\* load's dfs on one directory: a directory with neither targets nor
\* sub-directories is ignored, any other becomes a node.
LoadNode(files, children, nSubDirs) ==
    IF files.targets = None /\ nSubDirs = 0 THEN Ignored
    ELSE StandardDataFormat(NodeArgs(files, children))

----------------------------------------------------------------------------
(* Overlay resolver: pipeline/flatten_hierarchy.py, pipeline/common.py *)

\* Column labels of the technology metadata table.
Description == 1
MaterialUnit == 2
ProductionUnit == 3

\* pd.concat({year: overlay}, names=["Year"]): the year becomes level 0.
WithYear(year, df) ==
    [df EXCEPT !.index = [i \in DOMAIN df.index |-> <<year>> \o df.index[i]]]

\* Index.union: the operand itself when both are equal, else the sorted union.
UnionLabels(a, b) == IF a = b THEN a ELSE SortLabels(Range(a) \cup Range(b))
UnionNats(a, b) == IF a = b THEN a ELSE SortNats(Range(a) \cup Range(b))

\* combine_first with the receiver and the argument exchanged.
CombineFirstSwapped(x, y) ==
    LET idx == UnionLabels(x.index, y.index)
        cols == UnionNats(x.columns, y.columns)
    IN [index |-> idx, columns |-> cols,
        values |-> [i \in DOMAIN idx |->
                      [j \in DOMAIN cols |->
                         IF Cell(y, idx[i], cols[j]) # NaN
                         THEN Cell(y, idx[i], cols[j])
                         ELSE Cell(x, idx[i], cols[j])]]]

\* x.combine_first(y): rows and columns are the unions; a cell is x's value
\* unless x has none there (absent or NaN), and then y's.
CombineFirst(x, y) ==
    LET idx == UnionLabels(x.index, y.index)
        cols == UnionNats(x.columns, y.columns)
    IN [index |-> idx, columns |-> cols,
        values |-> [i \in DOMAIN idx |->
                      [j \in DOMAIN cols |->
                         IF Cell(x, idx[i], cols[j]) # NaN
                         THEN Cell(x, idx[i], cols[j])
                         ELSE Cell(y, idx[i], cols[j])]]]

\* {Year(0): base_overlay} | yearly_overlays
OverlaysByYear(base_overlay, yearly_overlays) ==
    [y \in {0} \cup DOMAIN yearly_overlays |->
        IF y \in DOMAIN yearly_overlays THEN yearly_overlays[y] ELSE base_overlay]

OverlayOne(overlaid, year, overlay) ==
    IF IsEmpty(overlay) THEN overlaid
    ELSE IF IsEmpty(overlaid) THEN WithYear(year, overlay)
    ELSE CombineFirst(WithYear(year, overlay), overlaid)

RECURSIVE OverlayLoop(_, _, _)
OverlayLoop(overlaid, years, overlays) ==
    IF years = <<>> THEN overlaid
    ELSE OverlayLoop(OverlayOne(overlaid, Head(years), overlays[Head(years)]),
                     Tail(years), overlays)

overlay_in_order(df, base_overlay, yearly_overlays) ==
    LET overlays == OverlaysByYear(base_overlay, yearly_overlays)
    IN OverlayLoop(df, SortNats(DOMAIN overlays), overlays)

\* validate_tech_units: every Category has exactly one distinct (non-missing)
\* Material Unit and exactly one distinct Production Unit.
UnitsOf(meta, category, column) ==
    {Cell(meta, meta.index[i], column) :
        i \in {h \in DOMAIN meta.index : meta.index[h][1] = category}} \ {NaN}

validate_tech_units(meta) ==
    \/ IsEmpty(meta)
    \/ \A t \in Range(meta.index) :
          /\ Cardinality(UnitsOf(meta, t[1], MaterialUnit)) = 1
          /\ Cardinality(UnitsOf(meta, t[1], ProductionUnit)) = 1

\* DataFrame.reindex(labels): the rows at `labels`, in that order; a label
\* the table lacks gets a row of NaN.
ReindexRows(df, labels) ==
    [index |-> labels, columns |-> df.columns,
     values |-> [i \in DOMAIN labels |->
                   [j \in DOMAIN df.columns |-> Cell(df, labels[i], df.columns[j])]]]

ReindexColumns(df, cols) ==
    [index |-> df.index, columns |-> cols,
     values |-> [i \in DOMAIN df.index |->
                   [j \in DOMAIN cols |-> Cell(df, df.index[i], cols[j])]]]

\* reindex(labels, level="Resource") on a (Year, Resource) index: the rows
\* whose resource is among `labels`, ordered by year and then as `labels`.
ReindexResourceLevel(df, labels) ==
    LET keep == SelectSeq(SortLabels(Range(df.index)),
                          LAMBDA row : row[2] \in Range(labels))
    IN ReindexRows(df, keep)

\* unstack(level=0).reindex(targets_techs).stack().reorder_levels(...).sort_index():
\* the rows of the target technologies that hold some value, ascending, with
\* the columns ascending.
NarrowToTargets(intensities, targets_techs) ==
    LET cols == SortNats(Range(intensities.columns))
        rows == {row \in Range(intensities.index) :
                    /\ Tail(row) \in Range(targets_techs)
                    /\ \E c \in Range(cols) : Cell(intensities, row, c) # NaN}
    IN ReindexColumns(ReindexRows(intensities, SortLabels(rows)), cols)

\* SparseYearsInput.validate: the bundle as it stands when validate returns or
\* raises, what it raised, and the mismatched resources it returned.
BundleValidate(b) ==
    IF ~validate_tech_units(b.tech_metadata)
    THEN [bundle |-> b, raised |-> "ValueError", returned |-> {}]
    \* droplevel(0) on the single-level index of an empty frame
    ELSE IF Len(b.intensities.index) = 0
    THEN [bundle |-> b, raised |-> "ValueError", returned |-> {}]
    ELSE IF ~(Range(b.targets.index) \subseteq
                {Tail(row) : row \in Range(b.intensities.index)})
    THEN [bundle |-> b, raised |-> "ValueError", returned |-> {}]
    ELSE LET narrowed == [b EXCEPT !.intensities =
                               NarrowToTargets(b.intensities, b.targets.index)]
         IN \* get_level_values("Resource") on an index without that level
            IF Len(b.indicators.index) = 0
            THEN [bundle |-> narrowed, raised |-> "KeyError", returned |-> {}]
            ELSE LET intensities_resources == Range(narrowed.intensities.columns)
                     indicators_resources == {row[2] : row \in Range(b.indicators.index)}
                     sorted_resources ==
                        SortNats(intensities_resources \cap indicators_resources)
                     mismatched_resources ==
                        (intensities_resources \cup indicators_resources)
                            \ (intensities_resources \cap indicators_resources)
                 IN IF mismatched_resources # {}
                    THEN [bundle |->
                            [narrowed EXCEPT
                               !.intensities =
                                   ReindexColumns(narrowed.intensities, sorted_resources),
                               !.indicators =
                                   ReindexResourceLevel(b.indicators,
                                       [i \in DOMAIN sorted_resources |->
                                           sorted_resources[i]])],
                          raised |-> "none", returned |-> mismatched_resources]
                    ELSE [bundle |-> narrowed, raised |-> "none", returned |-> {}]

InitialBundle ==
    [intensities |-> EmptyFrame, targets |-> EmptyFrame,
     indicators |-> EmptyFrame, tech_metadata |-> EmptyFrame]

\* The indicator-names check at the head of dfs.
IndicatorNamesOk(root, inpt) ==
    \/ IsEmpty(root.indicators)
    \/ IsEmpty(inpt.indicators)
    \/ inpt.indicators.columns = root.indicators.columns

\* The accumulation of dfs: the inherited bundle overlaid with the node.
DfsOverlay(root, inpt) ==
    [inpt EXCEPT
        !.intensities =
            overlay_in_order(inpt.intensities, root.intensities, root.intensities_yearly),
        !.indicators =
            overlay_in_order(inpt.indicators, root.indicators, root.indicators_yearly),
        !.tech_metadata =
            IF IsEmpty(inpt.tech_metadata) THEN root.tech_meta
            ELSE GroupLast(ConcatRows(inpt.tech_metadata, root.tech_meta))]

\* The leaf branch with the metadata left as inherited.
WithTargetsUntrimmed(root, overlaid) == [overlaid EXCEPT !.targets = root.targets]

\* The leaf branch of dfs: targets attached and metadata trimmed ...
WithTargets(root, overlaid) ==
    [overlaid EXCEPT
        !.targets = root.targets,
        !.tech_metadata = ReindexRows(overlaid.tech_metadata, root.targets.index)]

\* ... and validation run, its ValueError only logged and its return value
\* left unused.
DfsLeaf(root, overlaid) == BundleValidate(WithTargets(root, overlaid))

\* The SparseYearsInput objects of a traversal live in `heap`, a sequence; a
\* reference to one is its position.  The same object under another name.
copy_aliased(heap, ref) == [heap |-> heap, ref |-> ref]

\* SparseYearsInput.copy: a new object holding copies of the four tables.
copy(heap, ref) == [heap |-> Append(heap, heap[ref]), ref |-> Len(heap) + 1]

\* dfs: what the generator yields, in order, the labels of the leaves whose
\* failed validation it logged (logging.error), how it ends, and the objects
\* as it leaves them.
RECURSIVE dfs(_, _, _, _)
RECURSIVE DfsChildren(_, _, _, _)
DfsChildren(children, overlaid, label, done) ==
    IF children = <<>>
    THEN [status |-> "ok", yields |-> done.yields, logged |-> done.logged,
          heap |-> done.heap]
    ELSE LET sub == dfs(Head(children), overlaid,
                        Append(label, Head(children).name), done.heap)
             so_far == [yields |-> done.yields \o sub.yields,
                        logged |-> done.logged \o sub.logged,
                        heap |-> sub.heap]
         IN IF sub.status # "ok"
            THEN [status |-> sub.status, yields |-> so_far.yields,
                  logged |-> so_far.logged, heap |-> so_far.heap]
            ELSE DfsChildren(Tail(children), overlaid, label, so_far)

dfs(root, inpt, label, heap) ==
    IF ~IndicatorNamesOk(root, heap[inpt])
    THEN [status |-> "ValueError", yields |-> <<>>, logged |-> <<>>, heap |-> heap]
    ELSE LET copied == copy(heap, inpt)
             overlaid == copied.ref
             merged == [copied.heap EXCEPT ![overlaid] = DfsOverlay(root, @)]
         IN IF root.children # <<>>
            THEN DfsChildren(root.children, overlaid, label,
                             [yields |-> <<>>, logged |-> <<>>, heap |-> merged])
            ELSE LET leaf == DfsLeaf(root, merged[overlaid])
                     validated == [merged EXCEPT ![overlaid] = leaf.bundle]
                 IN IF leaf.raised = "KeyError"
                    THEN [status |-> "KeyError", yields |-> <<>>, logged |-> <<>>,
                          heap |-> validated]
                    ELSE [status |-> "ok", yields |-> <<<<label, leaf.bundle>>>>,
                          logged |-> IF leaf.raised = "ValueError" THEN <<label>>
                                     ELSE <<>>,
                          heap |-> validated]

flatten_hierarchy(root_sdf) ==
    LET run == dfs(root_sdf, 1, <<root_sdf.name>>, <<InitialBundle>>)
    IN [status |-> run.status, yields |-> run.yields, logged |-> run.logged]

----------------------------------------------------------------------------
(* Year interpolator: pipeline/sparse_to_processable_input.py *)

IndexError == [status |-> "IndexError"]

HasDuplicates(seq) == \E i, j \in DOMAIN seq : i # j /\ seq[i] = seq[j]

\* Values of level 0 of an index in order of first appearance.
RECURSIVE UniqueInOrder(_)
UniqueInOrder(seq) ==
    IF seq = <<>> THEN <<>>
    ELSE LET front == UniqueInOrder(SubSeq(seq, 1, Len(seq) - 1))
         IN IF seq[Len(seq)] \in Range(front) THEN front
            ELSE Append(front, seq[Len(seq)])

YearsOf(df) == UniqueInOrder([i \in DOMAIN df.index |-> df.index[i][1]])

\* df.rename({Year(0): first_year}): the label 0 becomes first_year.
RenameBaseYear(df, first_year) ==
    [df EXCEPT !.index =
        [i \in DOMAIN df.index |->
            [l \in DOMAIN df.index[i] |->
                IF df.index[i][l] = 0 THEN first_year ELSE df.index[i][l]]]]

\* df.sort_index(axis=0).sort_index(axis=1) of a table with unique labels.
SortBothAxes(df) ==
    ReindexColumns(ReindexRows(df, SortLabels(Range(df.index))),
                   SortNats(Range(df.columns)))

\* Series.interpolate(method="index") on one column of the unstacked table,
\* `xs` being the years of the rows: a missing value between two known ones
\* is interpolated linearly in the year, a missing value after the last known
\* one takes that last value, a missing value before the first known one
\* stays missing.
InterpolateAt(vals, xs, i) ==
    LET before == {k \in DOMAIN vals : k < i /\ vals[k] # NaN}
        after == {k \in DOMAIN vals : k > i /\ vals[k] # NaN}
        lo == CHOOSE k \in before : \A h \in before : h <= k
        hi == CHOOSE k \in after : \A h \in after : k <= h
    IN IF vals[i] # NaN THEN vals[i]
       ELSE IF before = {} THEN NaN
       ELSE IF after = {} THEN vals[lo]
       ELSE vals[lo] + ((vals[hi] - vals[lo]) * (xs[i] - xs[lo])) \div (xs[hi] - xs[lo])

\* The same with the values after the last known one left missing.
InterpolateColumnInside(vals, xs) ==
    [i \in DOMAIN vals |->
        IF \A k \in DOMAIN vals : k > i => vals[k] = NaN
        THEN vals[i] ELSE InterpolateAt(vals, xs, i)]

InterpolateColumn(vals, xs) == [i \in DOMAIN vals |-> InterpolateAt(vals, xs, i)]

\* df.unstack(...).interpolate(method="index").values.flatten(): rows are the
\* years, columns the (column label, key) pairs with the column label
\* varying slowest; flattened row by row.  `keys` are the distinct keys of
\* the rows, ascending.
InterpolatedArray(df, years, keys) ==
    LET nC == Len(df.columns)
        nK == Len(keys)
        column(c) == [yi \in DOMAIN years |->
                        Cell(df, <<years[yi]>> \o keys[((c - 1) % nK) + 1],
                             df.columns[((c - 1) \div nK) + 1])]
    IN [p \in 1..(Len(years) * nC * nK) |->
          InterpolateColumn(column(((p - 1) % (nC * nK)) + 1), years)
              [((p - 1) \div (nC * nK)) + 1]]

\* The positions left as they are: the unstacked layout read as if it were the
\* layout of the reindexed table.
get_permutation_identity(n_keys, n_columns, n_years) ==
    [p \in 0..(n_keys * n_columns * n_years - 1) |-> p]

\* The positions of each year taken from the opposite end of the years.
get_permutation_years_reversed(n_keys, n_columns, n_years) ==
    [p \in 0..(n_keys * n_columns * n_years - 1) |->
        LET x == (n_years - 1) - ((p \div n_columns) \div n_keys)
            y == (p \div n_columns) % n_keys
            n == (p % n_columns) * n_keys
            r == n_keys * n_columns * x + y
        IN n + r]

\* get_permutation, with n_keys = len(techs) (len(resources) for indicators)
\* and n_columns = len(df.columns); 0-based positions.
get_permutation(n_keys, n_columns, n_years) ==
    [p \in 0..(n_keys * n_columns * n_years - 1) |->
        LET x == (p \div n_columns) \div n_keys
            y == (p \div n_columns) % n_keys
            n == (p % n_columns) * n_keys
            r == n_keys * n_columns * x + y
        IN n + r]

\* The common body of _interpolate_intensities and _interpolate_indicators:
\* `keys` is the list of technologies (of resources) handed in.
Interpolate(df, years, keys) ==
    LET idx == SortLabels({<<y>> \o k : y \in Range(years), k \in Range(keys)})
    IN  \* reindex needs unique labels; unstack needs unique rows
        IF HasDuplicates(df.index) \/ HasDuplicates(keys) THEN ValueError
        ELSE LET reindexed == ReindexRows(SortBothAxes(df), idx)
                 nC == Len(reindexed.columns)
                 interpolated_array ==
                     InterpolatedArray(reindexed, years, SortLabels(Range(keys)))
                 ordering == get_permutation(Len(keys), nC, Len(years))
             IN [index |-> idx, columns |-> reindexed.columns,
                 values |-> [i \in DOMAIN idx |->
                               [j \in 1..nC |->
                                  interpolated_array[ordering[(i - 1) * nC + (j - 1)] + 1]]]]

_interpolate_intensities(df, years, techs) == Interpolate(df, years, techs)
_interpolate_indicators(df, years, resources) == Interpolate(df, years, resources)

\* df.loc[label, :] on a multi-level index: the rows whose first level is the
\* label, that level dropped.
LocFirstLevel(df, label) ==
    LET rows == SelectSeq(df.index, LAMBDA row : row[1] = label)
    IN [index |-> [i \in DOMAIN rows |-> Tail(rows[i])], columns |-> df.columns,
        values |-> [i \in DOMAIN rows |->
                      [j \in DOMAIN df.columns |-> Cell(df, rows[i], df.columns[j])]]]

\* targets.loc[:, str(year)]
TargetsColumn(targets, year) ==
    [index |-> targets.index,
     values |-> [i \in DOMAIN targets.index |-> targets.values[i][Pos(targets.columns, year)]]]

\* The rest of to_processable_input once its assertions have passed: the
\* base year renamed, both tables interpolated, one input per target year.
EmitInputs(bundle, target_years) ==
    LET target_techs == bundle.targets.index
        indicators_resources == [i \in DOMAIN bundle.indicators.index |->
                                    Tail(bundle.indicators.index[i])]
        first_year == target_years[1]
        intensities == _interpolate_intensities(
            RenameBaseYear(bundle.intensities, first_year),
            target_years, target_techs)
        indicators == _interpolate_indicators(
            RenameBaseYear(bundle.indicators, first_year),
            target_years, indicators_resources)
    IN IF intensities = ValueError \/ indicators = ValueError THEN ValueError
       ELSE [status |-> "ok",
             inputs |-> [i \in DOMAIN target_years |->
                [year |-> target_years[i],
                 inpt |-> [intensities |-> LocFirstLevel(intensities, target_years[i]),
                           targets |-> TargetsColumn(bundle.targets, target_years[i]),
                           indicators |-> LocFirstLevel(indicators, target_years[i])]]]]

\* to_processable_input with `return` where the first three assertions are.
to_processable_input_returning(bundle) ==
    LET intensities_years == YearsOf(bundle.intensities)
        indicator_years == YearsOf(bundle.indicators)
        target_years == SortNats(Range(bundle.targets.columns))
    IN IF intensities_years = <<>> \/ indicator_years = <<>>
       THEN [status |-> "ok", inputs |-> <<>>]
       ELSE IF intensities_years[1] # 0 \/ indicator_years[1] # 0 \/ target_years = <<>>
            THEN [status |-> "ok", inputs |-> <<>>]
       ELSE IF ~(Range(bundle.targets.index) \subseteq
                    {Tail(row) : row \in Range(bundle.intensities.index)})
            THEN AssertionError
       ELSE EmitInputs(bundle, target_years)

\* to_processable_input: the (year, ProcessableInput) pairs it yields, or the
\* exception it raises before the first of them.
to_processable_input(bundle) ==
    LET intensities_years == YearsOf(bundle.intensities)
        indicator_years == YearsOf(bundle.indicators)
        target_years == SortNats(Range(bundle.targets.columns))
    IN IF intensities_years = <<>> \/ indicator_years = <<>> THEN IndexError
       ELSE IF intensities_years[1] # 0 \/ indicator_years[1] # 0 \/ target_years = <<>>
            THEN AssertionError
       ELSE IF ~(Range(bundle.targets.index) \subseteq
                    {Tail(row) : row \in Range(bundle.intensities.index)})
            THEN AssertionError
       ELSE EmitInputs(bundle, target_years)

----------------------------------------------------------------------------
(* Result index: PipelineOutput of pipeline.py *)

KeyError == [status |-> "KeyError"]
Ok(value) == [status |-> "ok", value |-> value]

\* A dict as the sequence of its (key, value) items in insertion order.
DictHas(d, k) == \E i \in DOMAIN d : d[i][1] = k
DictGet(d, k) == d[CHOOSE i \in DOMAIN d : d[i][1] = k][2]
DictSet(d, k, v) ==
    IF DictHas(d, k) THEN [i \in DOMAIN d |-> IF d[i][1] = k THEN <<k, v>> ELSE d[i]]
    ELSE Append(d, <<k, v>>)
DictKeys(d) == [i \in DOMAIN d |-> d[i][1]]
DictValues(d) == [i \in DOMAIN d |-> d[i][2]]

\* m[outer] of a defaultdict(dict): the value, the empty dict when absent.
DefaultGet(m, outer) == IF DictHas(m, outer) THEN DictGet(m, outer) ELSE <<>>

\* self._by_path[output.path][output.year] = output, with an output already
\* stored under the same path and year kept.
InsertByPathKeepFirst(by_path, output) ==
    IF DictHas(DefaultGet(by_path, output.path), output.year) THEN by_path
    ELSE DictSet(by_path, output.path,
                 DictSet(DefaultGet(by_path, output.path), output.year, output))

\* self._by_year[output.year][output.path] = output
InsertByYear(by_year, output) ==
    DictSet(by_year, output.year,
            DictSet(DefaultGet(by_year, output.year), output.path, output))

\* self._by_path[output.path][output.year] = output
InsertByPath(by_path, output) ==
    DictSet(by_path, output.path,
            DictSet(DefaultGet(by_path, output.path), output.year, output))

\* ProcessedOutput.indicators: level 0 of the emissions index.
OutputIndicators(output) == {row[1] : row \in Range(output.emissions.index)}

\* PipelineOutput.__init__
RECURSIVE PipelineOutput(_)
PipelineOutput(data) ==
    IF data = <<>>
    THEN [by_year |-> <<>>, by_path |-> <<>>, length |-> 0, indicators |-> {}]
    ELSE LET before == PipelineOutput(SubSeq(data, 1, Len(data) - 1))
             output == data[Len(data)]
         IN [by_year |-> InsertByYear(before.by_year, output),
             by_path |-> InsertByPath(before.by_path, output),
             length |-> Len(data),
             indicators |-> OutputIndicators(data[1])]

\* Keys of __getitem__: a Year, a Path, or a tuple of two of them.
YearKey(y) == [is |-> "Year", v |-> y]
PathKey(p) == [is |-> "Path", v |-> p]
TupleKey(a, b) == [tuple |-> <<a, b>>]

\* Paths of the hierarchy: the root directory, an internal node with every
\* leaf beneath it, is path 0 and the leaves are the paths 1, 2, ...
\* (flatten_hierarchy labels a leaf root-name/.../leaf-name).
RootPath == 0
Under(path, ancestor) == ancestor = RootPath \/ ancestor = path

\* The items of all inner dicts of a two-level map, in order.
RECURSIVE AllItems(_)
AllItems(map) ==
    IF map = <<>> THEN <<>> ELSE map[1][2] \o AllItems(Tail(map))

\* A lookup by path that gathers the outputs at or under the path.
DefaultLookupUnder(self, field, k) ==
    IF field = "by_path" /\ k = RootPath
    THEN [self |-> self, result |-> Ok(AllItems(self.by_path))]
    ELSE [self |-> IF DictHas(self[field], k) THEN self
                   ELSE [self EXCEPT ![field] = Append(self[field], <<k, <<>>>>)],
          result |-> Ok(DefaultGet(self[field], k))]

\* self.by_year[key] / self.by_path[key]: a lookup in a defaultdict, which
\* stores an empty dict under a key it does not hold.
DefaultLookup(self, field, k) ==
    [self |-> IF DictHas(self[field], k) THEN self
              ELSE [self EXCEPT ![field] = Append(self[field], <<k, <<>>>>)],
     result |-> Ok(DefaultGet(self[field], k))]

\* PipelineOutput.__getitem__: the object after the call and what the call
\* returned or raised.
getitem(self, key) ==
    IF "tuple" \in DOMAIN key
    THEN LET swap == key.tuple[1].is = "Path"
             year == IF swap THEN key.tuple[2] ELSE key.tuple[1]
             path == IF swap THEN key.tuple[1] ELSE key.tuple[2]
         IN IF year.is # "Year" \/ path.is # "Path"
            THEN [self |-> self, result |-> AssertionError]
            ELSE LET of_year == DefaultLookup(self, "by_year", year.v)
                 IN [self |-> of_year.self,
                     result |-> IF DictHas(of_year.result.value, path.v)
                                THEN Ok(DictGet(of_year.result.value, path.v))
                                ELSE KeyError]
    ELSE IF key.is = "Year" THEN DefaultLookup(self, "by_year", key.v)
    ELSE DefaultLookup(self, "by_path", key.v)

\* PipelineOutput.keys
keys(self, axis) ==
    IF axis = "Year" THEN DictKeys(self.by_year) ELSE DictKeys(self.by_path)

\* pd.concat({k: frame, ...}, names=["Year"]): the rows of the frames in the
\* order of the dict, each labelled with its key; the columns in order of
\* first appearance.
RECURSIVE ConcatColumns(_)
ConcatColumns(frames) ==
    IF frames = <<>> THEN <<>>
    ELSE LET front == ConcatColumns(SubSeq(frames, 1, Len(frames) - 1))
             last == frames[Len(frames)][2].columns
         IN front \o SelectSeq(last, LAMBDA c : c \notin Range(front))

RECURSIVE ConcatIndex(_)
ConcatIndex(frames) ==
    IF frames = <<>> THEN <<>>
    ELSE [i \in DOMAIN frames[1][2].index |-> <<frames[1][1]>> \o frames[1][2].index[i]]
            \o ConcatIndex(Tail(frames))

RECURSIVE ConcatValues(_, _)
ConcatValues(frames, columns) ==
    IF frames = <<>> THEN <<>>
    ELSE [i \in DOMAIN frames[1][2].index |->
            [j \in DOMAIN columns |->
                IF columns[j] \in Range(frames[1][2].columns)
                THEN frames[1][2].values[i][Pos(frames[1][2].columns, columns[j])]
                ELSE NaN]]
            \o ConcatValues(Tail(frames), columns)

ConcatKeyed(frames) ==
    IF frames = <<>> THEN ValueError
    ELSE Ok([index |-> ConcatIndex(frames), columns |-> ConcatColumns(frames),
             values |-> ConcatValues(frames, ConcatColumns(frames))])

\* v.emissions.loc[indicator, :] with the indicator level ignored: the rows
\* of every indicator.
EmissionsRowsOfAll(v, indicator) ==
    [v.emissions EXCEPT !.index = [i \in DOMAIN v.emissions.index |->
                                      Tail(v.emissions.index[i])]]

\* v.emissions.loc[indicator, :]
EmissionsRows(v, indicator) == LocFirstLevel(v.emissions, indicator)

HasIndicator(v, indicator) ==
    \E row \in Range(v.emissions.index) : row[1] = indicator

\* PipelineOutput.emissions
emissions(self, key, indicator) ==
    LET data == getitem(self, PathKey(key))
    IN [self |-> data.self,
        result |->
            IF \E i \in DOMAIN data.result.value :
                  ~HasIndicator(data.result.value[i][2], indicator)
            THEN KeyError
            ELSE ConcatKeyed([i \in DOMAIN data.result.value |->
                    <<data.result.value[i][1],
                      EmissionsRows(data.result.value[i][2], indicator)>>])]

\* PipelineOutput.resources
resources(self, key) ==
    LET data == getitem(self, PathKey(key))
    IN [self |-> data.self,
        result |-> ConcatKeyed([i \in DOMAIN data.result.value |->
                      <<data.result.value[i][1],
                        data.result.value[i][2].required_resources>>])]

\* list(PipelineOutput.__iter__())
RECURSIVE IterValues(_)
IterValues(by_year) ==
    IF by_year = <<>> THEN <<>>
    ELSE DictValues(by_year[1][2]) \o IterValues(Tail(by_year))

iter(self) == IterValues(self.by_year)

\* PipelineOutput.__len__
len(self) == self.length

----------------------------------------------------------------------------
(* Inputs of the calculation engine *)

TechRank(t) == CHOOSE i \in 1..NumTechs : TechOf(i) = t

IntensityValue(t, r, v) == v + r + NumResources * (TechRank(t) - 1)
TargetValue(t, v) == v + 2 * TechRank(t)
IndicatorValue(r, k, v) == v + k + NumIndicators * (r - 1)

IntensitiesTable(index, columns, v) ==
    [index |-> index, columns |-> columns,
     values |-> [i \in DOMAIN index |->
                   [j \in DOMAIN columns |-> IntensityValue(index[i], columns[j], v)]]]

TargetsSeries(index, v) ==
    [index |-> index, values |-> [i \in DOMAIN index |-> TargetValue(index[i], v)]]

IndicatorsTable(index, columns, v) ==
    [index |-> index, columns |-> columns,
     values |-> [i \in DOMAIN index |->
                   [j \in DOMAIN columns |-> IndicatorValue(index[i][1], columns[j], v)]]]

ResourceRows == {<<r>> : r \in Resources}

ProcessableInputs ==
    {[intensities |-> IntensitiesTable(ti, rc, v),
      targets |-> TargetsSeries(tt, v),
      indicators |-> IndicatorsTable(ri, SortNats(Indicators), v)] :
        ti \in Arrangements(Techs, 1), rc \in Arrangements(Resources, 1),
        tt \in Arrangements(Techs, 1), ri \in Arrangements(ResourceRows, 1),
        v \in 1..MaxSeed}

CalcIdle == calcIn = Idle /\ calcOut = Idle /\ calcFlat = Idle
SdfIdle ==
    /\ sdfDirs = 0 /\ sdfBuilt = <<>> /\ sdfLast = Idle
    /\ sdfRoot = Idle /\ sdfYielded = Idle

FlatIdle == flatIn = Idle /\ flatNode = Idle /\ flatOut = Idle /\ flatDepth = 0
InterpIdle == interpLeaf = Idle /\ interpBundle = Idle /\ interpOut = Idle
OutIdle == outData = <<>> /\ outIndex = Idle /\ outLast = Idle
PipeIdle ==
    /\ pipeTree = Idle /\ pipeFlat = Idle /\ pipeLast = Idle
    /\ pipeProcessed = <<>> /\ pipeResult = Idle
SaveIdle == saveTree = Idle /\ saveDir = Idle /\ saveLoaded = Idle

CalcInit ==
    /\ calcIn \in ProcessableInputs
    /\ calcOut = NoOutput
    /\ calcFlat = NoOutput
    /\ SdfIdle /\ FlatIdle /\ InterpIdle /\ OutIdle /\ PipeIdle /\ SaveIdle

Calculate ==
    /\ calcOut = NoOutput
    /\ calcOut' = calculate(calcIn)
    /\ UNCHANGED <<calcIn, calcFlat, sdfVars, flatVars, interpVars, outVars, pipeVars, saveVars>>

CalcNext == Calculate

SpecCalc == CalcInit /\ [][CalcNext]_vars

\* The inputs of calculate of calculation.py over the technologies ti: targets
\* for some or all of them, in any order.
FlatInputs(ti) ==
    {[intensities |-> IntensitiesTable(ti, rc, v),
      targets |-> TargetsSeries(tt, v),
      indicators |-> IndicatorsTable(ri, SortNats(Indicators), v)] :
        tt \in Arrangements(Range(ti), 1), rc \in Arrangements(Resources, 1),
        ri \in Arrangements(ResourceRows, 1), v \in {1, MaxSeed}}

CalcFlatInit ==
    /\ \E ti \in Arrangements(Techs, 1) : calcIn \in FlatInputs(ti)
    /\ calcOut = NoOutput
    /\ calcFlat = NoOutput
    /\ SdfIdle /\ FlatIdle /\ InterpIdle /\ OutIdle /\ PipeIdle /\ SaveIdle

\* calculate of calculation.py
CalculateFlat ==
    /\ calcFlat = NoOutput
    /\ calcFlat' = calculation_calculate(calcIn)
    /\ UNCHANGED <<calcIn, calcOut, sdfVars, flatVars, interpVars, outVars, pipeVars, saveVars>>

CalcFlatNext == CalculateFlat

SpecCalcFlat == CalcFlatInit /\ [][CalcFlatNext]_vars

----------------------------------------------------------------------------
(* Loading a directory tree and flattening it *)

T1 == TechOf(1)
T2 == TechOf(2)

\* Metadata of a technology: a description, and units that are uniform
\* within a Category.
MetaTable(index) ==
    [index |-> index, columns |-> <<Description, MaterialUnit, ProductionUnit>>,
     values |-> [i \in DOMAIN index |-> <<TechRank(index[i]), 1, 1>>]]

TechsFile(index, columns, v) ==
    [table |-> IntensitiesTable(index, columns, v), meta |-> MetaTable(index)]
NoTechsFile == [table |-> EmptyFrame, meta |-> EmptyFrame]

\* targets.csv: technologies by year columns.
TargetsTable(index, years, v) ==
    [index |-> index, columns |-> years,
     values |-> [i \in DOMAIN index |->
                   [j \in DOMAIN years |-> TargetValue(index[i], v) + years[j]]]]

NoYearly == [y \in {} |-> EmptyFrame]
Yearly(year, table) == [y \in {year} |-> table]

\* techs.csv / techs_<year>.csv of one directory; the last two hold a yearly
\* file with a technology the base file lacks.
TechsChoices ==
    {[base |-> NoTechsFile, yearly |-> NoYearly],
     [base |-> TechsFile(<<T1, T2>>, <<1, 2>>, 1), yearly |-> NoYearly],
     [base |-> TechsFile(<<T1, T2>>, <<1, 2>>, 1),
      yearly |-> Yearly(2, TechsFile(<<T1>>, <<1, 2>>, 2))],
     [base |-> TechsFile(<<T1>>, <<1, 2>>, 1),
      yearly |-> Yearly(2, TechsFile(<<T2>>, <<1, 2>>, 2))],
     [base |-> NoTechsFile, yearly |-> Yearly(2, TechsFile(<<T1>>, <<1, 2>>, 2))]}

\* indicators.csv / indicators_<year>.csv; the last holds a yearly file with
\* a resource the base file lacks.
IndicatorsChoices ==
    {[base |-> EmptyFrame, yearly |-> NoYearly],
     [base |-> IndicatorsTable(<<<<1>>, <<2>>>>, <<1, 2>>, 1), yearly |-> NoYearly],
     [base |-> IndicatorsTable(<<<<1>>, <<2>>>>, <<1, 2>>, 1),
      yearly |-> Yearly(2, IndicatorsTable(<<<<1>>>>, <<1, 2>>, 2))],
     [base |-> IndicatorsTable(<<<<1>>>>, <<1, 2>>, 1),
      yearly |-> Yearly(2, IndicatorsTable(<<<<2>>>>, <<1, 2>>, 2))]}

TargetsChoices == {None, TargetsTable(<<T1>>, <<1, 2>>, 1)}

DirectoryFiles(name) ==
    {[name |-> name, techs |-> t.base, techs_yearly |-> t.yearly,
      indicators |-> i.base, indicators_yearly |-> i.yearly, targets |-> g] :
        t \in TechsChoices, i \in IndicatorsChoices, g \in TargetsChoices}

SdfInit ==
    /\ sdfDirs \in 0..MaxChildren
    /\ sdfBuilt = <<>>
    /\ sdfLast = Idle
    /\ sdfRoot = Idle
    /\ sdfYielded = NoOutput
    /\ CalcIdle /\ FlatIdle /\ InterpIdle /\ OutIdle /\ PipeIdle /\ SaveIdle

\* load's dfs on the next sub-directory (which has no sub-directories itself).
LoadChild ==
    /\ sdfRoot = Idle
    /\ Len(sdfBuilt) < sdfDirs
    /\ \E files \in DirectoryFiles(Len(sdfBuilt) + 1) :
         LET built == LoadNode(files, <<>>, 0)
         IN /\ sdfLast' = IF built = Ignored THEN sdfLast
                          ELSE [node |-> NodeArgs(files, <<>>), result |-> built]
            /\ IF built = Ignored \/ IsNode(built)
               THEN sdfBuilt' = Append(sdfBuilt, built) /\ UNCHANGED sdfRoot
               ELSE sdfRoot' = built /\ UNCHANGED sdfBuilt
    /\ UNCHANGED <<sdfDirs, sdfYielded, calcVars, flatVars, interpVars, outVars, pipeVars, saveVars>>

\* load's dfs on the input directory, once its sub-directories are read.
LoadRoot ==
    /\ sdfRoot = Idle
    /\ Len(sdfBuilt) = sdfDirs
    /\ \E files \in DirectoryFiles(0) :
         LET children == SelectSeq(sdfBuilt, IsNode)
             built == LoadNode(files, children, sdfDirs)
         IN /\ sdfLast' = IF built = Ignored THEN sdfLast
                          ELSE [node |-> NodeArgs(files, children), result |-> built]
            \* assert root_dfs is not None
            /\ sdfRoot' = IF built = Ignored THEN AssertionError ELSE built
    /\ UNCHANGED <<sdfDirs, sdfBuilt, sdfYielded, calcVars, flatVars, interpVars, outVars, pipeVars, saveVars>>

\* list(flatten_hierarchy(sdf.load(...))): reached only when load returned.
Flatten ==
    /\ IsNode(sdfRoot)
    /\ sdfYielded = NoOutput
    /\ sdfYielded' = flatten_hierarchy(sdfRoot)
    /\ UNCHANGED <<sdfDirs, sdfBuilt, sdfLast, sdfRoot, calcVars, flatVars, interpVars, outVars, pipeVars, saveVars>>

SdfNext == LoadChild \/ LoadRoot \/ Flatten

SpecSdf == SdfInit /\ [][SdfNext]_vars

----------------------------------------------------------------------------
(* dfs along one root-to-leaf path of a hierarchy *)

\* A table with the value at (row, col) missing (an empty CSV cell).
WithHole(df, row, col) ==
    [df EXCEPT !.values[Pos(df.index, row)][Pos(df.columns, col)] = NaN]

\* The intensities files of a node on the path: none; base tables that list
\* the technologies and resources in several orders and subsets, with and
\* without a missing cell; base tables with yearly tables beside them.
PathTechsChoices ==
    {[base |-> EmptyFrame, yearly |-> NoYearly]}
    \cup
    {[base |-> b, yearly |-> NoYearly] :
        b \in UNION {{IntensitiesTable(<<T1, T2>>, <<1, 2>>, v),
                      IntensitiesTable(<<T2, T1>>, <<1, 2>>, v),
                      IntensitiesTable(<<T1>>, <<1, 2>>, v),
                      IntensitiesTable(<<T2>>, <<2, 1>>, v),
                      IntensitiesTable(<<T1, T2>>, <<2>>, v),
                      WithHole(IntensitiesTable(<<T1, T2>>, <<1, 2>>, v), T1, 1)} :
                        v \in 1..MaxSeed}}
    \cup
    {[base |-> IntensitiesTable(<<T1, T2>>, <<1, 2>>, v),
      yearly |-> Yearly(2, y)] :
        v \in 1..MaxSeed,
        y \in {IntensitiesTable(<<T1>>, <<1, 2>>, 3),
               WithHole(IntensitiesTable(<<T2, T1>>, <<1, 2>>, 4), T1, 2)}}

\* The indicators files of a node on the path.
PathIndicatorsChoices ==
    {[base |-> b, yearly |-> NoYearly] :
        b \in UNION {{IndicatorsTable(<<<<1>>, <<2>>>>, <<1, 2>>, v),
                      IndicatorsTable(<<<<2>>, <<1>>>>, <<1, 2>>, v),
                      IndicatorsTable(<<<<1>>>>, <<2, 1>>, v),
                      IndicatorsTable(<<<<1>>, <<2>>>>, <<1>>, v),
                      WithHole(IndicatorsTable(<<<<1>>, <<2>>>>, <<1, 2>>, v), <<2>>, 1)} :
                        v \in 1..MaxSeed}}
    \cup
    {[base |-> IndicatorsTable(<<<<1>>, <<2>>>>, <<1, 2>>, v),
      yearly |-> Yearly(2, WithHole(IndicatorsTable(<<<<1>>, <<2>>>>, <<1, 2>>, 3), <<1>>, 1))] :
        v \in 1..MaxSeed}

PathNode(t, i) ==
    [name |-> 0,
     intensities |-> t.base, intensities_yearly |-> t.yearly,
     indicators |-> i.base, indicators_yearly |-> i.yearly,
     targets |-> None, children |-> <<"child">>,
     tech_meta |-> IF IsEmpty(t.base) THEN EmptyFrame ELSE MetaTable(t.base.index)]

\* The nodes dfs may meet on the path: internal nodes (the child the path
\* goes on to stands for their children) that passed the constructor's
\* validation.
PathNodes ==
    {PathNode(t, [base |-> EmptyFrame, yearly |-> NoYearly]) : t \in PathTechsChoices}
    \cup
    {PathNode([base |-> EmptyFrame, yearly |-> NoYearly], i) : i \in PathIndicatorsChoices}

FlatInit ==
    /\ flatIn = Idle
    /\ flatNode = Idle
    /\ flatOut = InitialBundle
    /\ flatDepth = 0
    /\ CalcIdle /\ SdfIdle /\ InterpIdle /\ OutIdle /\ PipeIdle /\ SaveIdle

\* dfs(root, inpt, label) on an internal node: the indicator-names check,
\* the overlay, and the descent into a child with the overlaid bundle.
DfsDescend ==
    /\ flatDepth < MaxDepth
    /\ flatOut # ValueError
    /\ \E root \in PathNodes :
         /\ SdfValidate(root) = "ok"
         /\ flatIn' = flatOut
         /\ flatNode' = root
         /\ flatOut' = IF IndicatorNamesOk(root, flatOut)
                       THEN DfsOverlay(root, flatOut)
                       ELSE ValueError
    /\ flatDepth' = flatDepth + 1
    /\ UNCHANGED <<calcVars, sdfVars, interpVars, outVars, pipeVars, saveVars>>

FlatNext == DfsDescend

SpecFlatten == FlatInit /\ [][FlatNext]_vars

----------------------------------------------------------------------------
(* Flattening and interpolation of a hierarchy that is a single leaf *)

Years == 1..NumYears

RECURSIVE Factorial(_)
Factorial(n) == IF n <= 1 THEN 1 ELSE n * Factorial(n - 1)

\* The values of the tables differ by multiples of InterpScale from one year
\* to another, so that the linear interpolation between any two years of
\* 1..NumYears is exact in the integers.
InterpScale == Factorial(NumYears)
YearSeed(y) == InterpScale * y * y

Reverse(seq) == [i \in DOMAIN seq |-> seq[Len(seq) + 1 - i]]

\* techs.csv of the leaf: technologies and resources in either order, or a
\* missing cell.
LeafBaseChoices ==
    {IntensitiesTable(<<T1, T2>>, <<1, 2>>, 0),
     IntensitiesTable(<<T2, T1>>, <<2, 1>>, 0),
     WithHole(IntensitiesTable(<<T1, T2>>, <<1, 2>>, 0), T2, 1)}

\* techs_<y>.csv of the leaf: both technologies, or one with a missing cell.
LeafYearlyTable(y, kind) ==
    IF kind = 1 THEN IntensitiesTable(<<T1, T2>>, <<1, 2>>, YearSeed(y))
    ELSE WithHole(IntensitiesTable(<<T1>>, <<1, 2>>, YearSeed(y)), T1, 2)

\* Yearly files for any set of years.
LeafYearlyChoices ==
    UNION {{[y \in S |-> LeafYearlyTable(y, kind[y])] : kind \in [S -> 1..2]} :
              S \in SUBSET Years}

\* targets.csv of the leaf: the year columns in descending order.
LeafTargetsChoices ==
    {TargetsTable(index, Reverse(SortNats(S)), 1) :
        index \in {<<T1, T2>>, <<T2>>}, S \in (SUBSET Years) \ {{}}}

\* indicators.csv of the leaf, alone or with a yearly file beside it.
LeafIndicatorsChoices ==
    {[base |-> IndicatorsTable(<<<<1>>, <<2>>>>, <<1, 2>>, 0), yearly |-> NoYearly],
     [base |-> IndicatorsTable(<<<<2>>, <<1>>>>, <<2, 1>>, 0), yearly |-> NoYearly],
     [base |-> IndicatorsTable(<<<<1>>, <<2>>>>, <<1, 2>>, 0),
      yearly |-> Yearly(2, IndicatorsTable(<<<<1>>>>, <<1, 2>>, YearSeed(2)))]}

LeafNodes ==
    {[name |-> 0,
      intensities |-> b, intensities_yearly |-> y,
      indicators |-> i.base, indicators_yearly |-> i.yearly,
      targets |-> g, children |-> <<>>,
      tech_meta |-> MetaTable(b.index)] :
        b \in LeafBaseChoices, y \in LeafYearlyChoices,
        i \in LeafIndicatorsChoices, g \in LeafTargetsChoices}

InterpInit ==
    /\ interpLeaf \in LeafNodes
    /\ SdfValidate(interpLeaf) = "ok"
    /\ interpBundle = NoOutput
    /\ interpOut = NoOutput
    /\ CalcIdle /\ SdfIdle /\ FlatIdle /\ OutIdle /\ PipeIdle /\ SaveIdle

\* pipeline(): the bundle flatten_hierarchy yields for the leaf.
FlattenLeaf ==
    /\ interpBundle = NoOutput
    /\ interpBundle' = flatten_hierarchy(interpLeaf)
    /\ UNCHANGED <<interpLeaf, interpOut, calcVars, sdfVars, flatVars, outVars, pipeVars, saveVars>>

\* pipeline(): to_processable_input run to its end on the yielded bundle.
ToProcessableInput ==
    /\ interpBundle # NoOutput
    /\ interpBundle.status = "ok"
    /\ interpOut = NoOutput
    /\ interpOut' = to_processable_input(interpBundle.yields[1][2])
    /\ UNCHANGED <<interpLeaf, interpBundle, calcVars, sdfVars, flatVars, outVars, pipeVars, saveVars>>

InterpNext == FlattenLeaf \/ ToProcessableInput

SpecInterp == InterpInit /\ [][InterpNext]_vars

----------------------------------------------------------------------------
(* A PipelineOutput and the queries made of it *)

Paths == 1..NumPaths
OutputYears == 1..NumOutputYears

\* The LabelledOutput of a path and year: what calculate returns for an input
\* that differs from one path, year and variant to another.
OutputSeed(path, year, variant) ==
    variant + MaxOutputs * ((year - 1) + NumOutputYears * (path - 1))

LabelledOutput(path, year, variant) ==
    LET processed == calculate(
            [intensities |-> IntensitiesTable(<<T1, T2>>, <<1, 2>>,
                                              OutputSeed(path, year, variant)),
             targets |-> TargetsSeries(<<T1, T2>>, OutputSeed(path, year, variant)),
             indicators |-> IndicatorsTable(<<<<1>>, <<2>>>>, SortNats(Indicators),
                                            OutputSeed(path, year, variant))])
    IN [required_resources |-> processed.required_resources,
        emissions |-> processed.emissions,
        year |-> year, path |-> path]

\* The (path, year) labels of a list of outputs in the order pipeline()
\* appends them: path after path, the paths numbered as they come, and the
\* years of a path ascending; two outputs of one path and year included.
InPipelineOrder(l) ==
    /\ l # <<>> => l[1][1] = 1
    /\ \A i \in 1..(Len(l) - 1) :
          \/ l[i + 1][1] = l[i][1] /\ l[i + 1][2] >= l[i][2]
          \/ l[i + 1][1] = l[i][1] + 1

\* Lists of outputs; the variant of an output is its position in the list.
OutputLists ==
    UNION {{[i \in 1..n |-> LabelledOutput(label[i][1], label[i][2], i)] :
               label \in {l \in [1..n -> Paths \X OutputYears] : InPipelineOrder(l)}} :
              n \in 0..MaxOutputs}

\* The years and paths asked for: those of the outputs, a year that no output
\* has, and the root of the hierarchy, a path that no output has.
AskedYears == {outData[i].year : i \in DOMAIN outData} \cup {NumOutputYears + 1}
AskedPaths == {outData[i].path : i \in DOMAIN outData} \cup {RootPath}

OutInit ==
    /\ outData \in OutputLists
    /\ outIndex = PipelineOutput(outData)
    /\ outLast = NoOutput
    /\ CalcIdle /\ SdfIdle /\ FlatIdle /\ InterpIdle /\ PipeIdle /\ SaveIdle

Asked(call, got) ==
    /\ outIndex' = got.self
    /\ outLast' = [call |-> call, result |-> got.result]
    /\ UNCHANGED <<outData, calcVars, sdfVars, flatVars, interpVars, pipeVars, saveVars>>

\* index[year]
GetItemYear ==
    \E y \in AskedYears :
        Asked([op |-> "getitem", key |-> YearKey(y)], getitem(outIndex, YearKey(y)))

\* index[path]
GetItemPath ==
    \E p \in AskedPaths :
        Asked([op |-> "getitem", key |-> PathKey(p)], getitem(outIndex, PathKey(p)))

\* index[(year, path)] and index[(path, year)]
GetItemTuple ==
    \E y \in AskedYears, p \in AskedPaths :
        \E key \in {TupleKey(YearKey(y), PathKey(p)), TupleKey(PathKey(p), YearKey(y))} :
            Asked([op |-> "getitem", key |-> key], getitem(outIndex, key))

\* index.keys(axis)
Keys ==
    \E axis \in {"Year", "Path"} :
        /\ outLast' = [call |-> [op |-> "keys", axis |-> axis],
                       result |-> Ok(keys(outIndex, axis))]
        /\ UNCHANGED <<outData, outIndex, calcVars, sdfVars, flatVars, interpVars, pipeVars, saveVars>>

\* index.emissions(path, indicator)
Emissions ==
    \E p \in AskedPaths, k \in Indicators :
        Asked([op |-> "emissions", path |-> p, indicator |-> k], emissions(outIndex, p, k))

\* index.resources(path)
RequiredResources ==
    \E p \in AskedPaths :
        Asked([op |-> "resources", path |-> p], resources(outIndex, p))

\* list(index)
Iterate ==
    /\ outLast' = [call |-> [op |-> "iter"], result |-> Ok(iter(outIndex))]
    /\ UNCHANGED <<outData, outIndex, calcVars, sdfVars, flatVars, interpVars, pipeVars, saveVars>>

\* len(index)
Length ==
    /\ outLast' = [call |-> [op |-> "len"], result |-> Ok(len(outIndex))]
    /\ UNCHANGED <<outData, outIndex, calcVars, sdfVars, flatVars, interpVars, pipeVars, saveVars>>

OutNext ==
    \/ GetItemYear \/ GetItemPath \/ GetItemTuple \/ Keys
    \/ Emissions \/ RequiredResources \/ Iterate \/ Length

SpecIndex == OutInit /\ [][OutNext]_vars

----------------------------------------------------------------------------
(* The run: pipeline() of pipeline.py on a hierarchy of at most two levels *)

\* Metadata of technologies whose units are all `unit`.
MetaTableOf(index, unit) ==
    [index |-> index, columns |-> <<Description, MaterialUnit, ProductionUnit>>,
     values |-> [i \in DOMAIN index |-> <<TechRank(index[i]), unit, unit>>]]

AllResources == SortNats(Resources)
AllIndicators == SortNats(Indicators)
AllResourceRows == [i \in DOMAIN AllResources |-> <<AllResources[i]>>]

\* The tables of the input directory: everything, intensities only, nothing,
\* indicators only.
PipeRootTables ==
    {[intensities |-> IntensitiesTable(<<T1, T2>>, AllResources, 1),
      tech_meta |-> MetaTableOf(<<T1, T2>>, 1),
      indicators |-> IndicatorsTable(AllResourceRows, AllIndicators, 1),
      targets |-> None],
     [intensities |-> IntensitiesTable(<<T1, T2>>, AllResources, 1),
      tech_meta |-> MetaTableOf(<<T1, T2>>, 1),
      indicators |-> EmptyFrame, targets |-> None],
     [intensities |-> EmptyFrame, tech_meta |-> EmptyFrame,
      indicators |-> EmptyFrame, targets |-> None],
     [intensities |-> EmptyFrame, tech_meta |-> EmptyFrame,
      indicators |-> IndicatorsTable(AllResourceRows, AllIndicators, 1),
      targets |-> None]}

\* The tables of a leaf directory.
PipeLeafPlain ==
    [intensities |-> EmptyFrame, tech_meta |-> EmptyFrame, indicators |-> EmptyFrame,
     targets |-> TargetsTable(<<T1, T2>>, <<2, 1>>, 1)]

PipeLeafTables ==
    {PipeLeafPlain,
     \* its own indicators, named as everywhere
     [PipeLeafPlain EXCEPT !.indicators = IndicatorsTable(AllResourceRows, AllIndicators, 2)],
     \* its own indicators, one name only
     [PipeLeafPlain EXCEPT !.indicators = IndicatorsTable(AllResourceRows, <<1>>, 2)],
     \* a technology of Category 1 in units of its own
     [PipeLeafPlain EXCEPT !.intensities = IntensitiesTable(<<T2>>, AllResources, 2),
                           !.tech_meta = MetaTableOf(<<T2>>, 2)],
     \* targets for one technology
     [PipeLeafPlain EXCEPT !.targets = TargetsTable(<<T1>>, <<1, 2>>, 2)],
     \* indicators for one resource
     [PipeLeafPlain EXCEPT !.indicators = IndicatorsTable(<<<<1>>>>, AllIndicators, 2)],
     \* targets without a year
     [PipeLeafPlain EXCEPT !.targets = TargetsTable(<<T1>>, <<>>, 1)],
     \* units of its own and indicators for one resource
     [PipeLeafPlain EXCEPT !.intensities = IntensitiesTable(<<T2>>, AllResources, 2),
                           !.tech_meta = MetaTableOf(<<T2>>, 2),
                           !.indicators = IndicatorsTable(<<<<1>>>>, AllIndicators, 2)],
     \* intensities for one technology, targets for two
     [PipeLeafPlain EXCEPT !.intensities = IntensitiesTable(<<T1>>, AllResources, 2),
                           !.tech_meta = MetaTableOf(<<T1>>, 1)],
     \* a technology in units of its own that the targets leave out
     [PipeLeafPlain EXCEPT !.intensities = IntensitiesTable(<<T2>>, AllResources, 2),
                           !.tech_meta = MetaTableOf(<<T2>>, 2),
                           !.targets = TargetsTable(<<T1>>, <<1, 2>>, 2)],
     \* technologies without units (empty cells)
     [PipeLeafPlain EXCEPT !.intensities = IntensitiesTable(<<T1, T2>>, AllResources, 2),
                           !.tech_meta = MetaTableOf(<<T1, T2>>, NaN)],
     \* everything
     [PipeLeafPlain EXCEPT !.intensities = IntensitiesTable(<<T1, T2>>, AllResources, 2),
                           !.tech_meta = MetaTableOf(<<T1, T2>>, 1),
                           !.indicators = IndicatorsTable(AllResourceRows, AllIndicators, 2)]}

PipeNode(name, tables, children) ==
    StandardDataFormat(
        [name |-> name,
         intensities |-> tables.intensities, intensities_yearly |-> NoYearly,
         indicators |-> tables.indicators, indicators_yearly |-> NoYearly,
         targets |-> tables.targets, children |-> children,
         tech_meta |-> tables.tech_meta])

\* The hierarchies sdf.load can return: a single leaf, or an input directory
\* with 1..MaxChildren leaf sub-directories named 1, 2, ...
PipeTrees ==
    {PipeNode(0, t, <<>>) : t \in PipeLeafTables}
    \cup UNION {{PipeNode(0, r, [i \in 1..n |-> PipeNode(i, leaves[i], <<>>)]) :
                    r \in PipeRootTables, leaves \in [1..n -> PipeLeafTables]} :
                n \in 1..MaxChildren}

PipeInit ==
    /\ pipeTree \in PipeTrees
    /\ pipeFlat = NoOutput
    /\ pipeLast = NoOutput
    /\ pipeProcessed = <<>>
    /\ pipeResult = NoOutput
    /\ CalcIdle /\ SdfIdle /\ FlatIdle /\ InterpIdle /\ OutIdle /\ SaveIdle

\* Number of bundles the loop of pipeline() has taken from the generator.
Consumed == IF pipeLast = NoOutput THEN 0 ELSE pipeLast.at

\* LabelledOutput(...) labelled with the name of the leaf instead of its path.
LabelledByName(result, year, path) ==
    [required_resources |-> result.required_resources,
     emissions |-> result.emissions, year |-> year, path |-> <<path[Len(path)]>>]

\* LabelledOutput(required_resources=..., emissions=..., year=..., path=...)
Labelled(result, year, path) ==
    [required_resources |-> result.required_resources,
     emissions |-> result.emissions, year |-> year, path |-> path]

\* The inner loop of pipeline() on one bundle: the outputs appended before
\* calculate raises, or all of them.
RECURSIVE ProcessInputs(_, _)
ProcessInputs(inputs, path) ==
    IF inputs = <<>> THEN [status |-> "ok", outputs |-> <<>>]
    ELSE LET result == calculate(Head(inputs).inpt)
         IN IF result = ValueError THEN [status |-> "ValueError", outputs |-> <<>>]
            ELSE LET rest == ProcessInputs(Tail(inputs), path)
                 IN [status |-> rest.status,
                     outputs |-> <<Labelled(result, Head(inputs).year, path)>>
                                    \o rest.outputs]

\* flatten_hierarchy(out_sdf): the generator, taken as what it will give.
PipeFlatten ==
    /\ pipeFlat = NoOutput
    /\ pipeFlat' = flatten_hierarchy(pipeTree)
    /\ UNCHANGED <<pipeTree, pipeLast, pipeProcessed, pipeResult,
                   calcVars, sdfVars, flatVars, interpVars, outVars, saveVars>>

\* One round of the outer loop of pipeline(): the next bundle is converted
\* and each of its yearly inputs calculated; an exception ends the run.
ProcessLeaf ==
    /\ pipeFlat # NoOutput
    /\ pipeResult = NoOutput
    /\ Consumed < Len(pipeFlat.yields)
    /\ LET label == pipeFlat.yields[Consumed + 1][1]
           bundle == pipeFlat.yields[Consumed + 1][2]
           out == to_processable_input(bundle)
           done == IF out.status = "ok" THEN ProcessInputs(out.inputs, label)
                   ELSE [status |-> out.status, outputs |-> <<>>]
       IN /\ pipeLast' = [at |-> Consumed + 1, label |-> label,
                          bundle |-> bundle, out |-> out]
          /\ pipeProcessed' = pipeProcessed \o done.outputs
          /\ pipeResult' = IF done.status = "ok" THEN NoOutput
                           ELSE [status |-> done.status]
    /\ UNCHANGED <<pipeTree, pipeFlat, calcVars, sdfVars, flatVars, interpVars, outVars, saveVars>>

\* The generator is exhausted, or raises: PipelineOutput(processed, tech_meta)
\* is returned, or the exception leaves pipeline().
PipeReturn ==
    /\ pipeFlat # NoOutput
    /\ pipeResult = NoOutput
    /\ Consumed = Len(pipeFlat.yields)
    /\ pipeResult' = IF pipeFlat.status = "ok"
                     THEN [status |-> "ok", output |-> PipelineOutput(pipeProcessed)]
                     ELSE [status |-> pipeFlat.status]
    /\ UNCHANGED <<pipeTree, pipeFlat, pipeLast, pipeProcessed,
                   calcVars, sdfVars, flatVars, interpVars, outVars, saveVars>>

PipeNext == PipeFlatten \/ ProcessLeaf \/ PipeReturn

SpecPipeline == PipeInit /\ [][PipeNext]_vars

----------------------------------------------------------------------------
(* Saving and re-loading: StandardDataFormat.save and load of
   standard_data_format.py.  The years of the model stand for four-digit
   years, which is what the readers' file patterns accept. *)

TechIndexNames == <<"Category", "Specific">>
ResourceIndexNames == <<"Resource">>

\* DataFrame.to_csv: the names of the index levels and the column labels in
\* the header, then a line per row, index labels first.
to_csv(df, index_names) ==
    [index_names |-> index_names, columns |-> df.columns,
     lines |-> [i \in DOMAIN df.index |-> df.index[i] \o df.values[i]]]

\* pd.read_csv(path, index_col=...): the named columns become the index.
read_csv(csv, index_col) ==
    IF csv.index_names # index_col THEN ValueError
    ELSE LET n == Len(index_col)
         IN [index |-> [i \in DOMAIN csv.lines |-> SubSeq(csv.lines[i], 1, n)],
             columns |-> csv.columns,
             values |-> [i \in DOMAIN csv.lines |->
                           SubSeq(csv.lines[i], n + 1, Len(csv.lines[i]))]]

\* A file "<stem>.csv" (year 0) or "<stem>_<year>.csv" of a directory.
File(stem, year, csv) == [stem |-> stem, year |-> year, csv |-> csv]

SavedTables(stem, base, yearly, index_names) ==
    LET years == SortNats(DOMAIN yearly)
    IN (IF IsEmpty(base) THEN <<>> ELSE <<File(stem, 0, to_csv(base, index_names))>>)
       \o [i \in DOMAIN years |-> File(stem, years[i], to_csv(yearly[years[i]], index_names))]

\* save_intensities, save_indicators and save_targets on one node.
SavedFiles(node) ==
    SavedTables("intensities", node.intensities, node.intensities_yearly, TechIndexNames)
    \o SavedTables("indicators", node.indicators, node.indicators_yearly,
                   ResourceIndexNames)
    \o (IF node.targets # None
        THEN <<File("targets", 0, to_csv(node.targets, TechIndexNames))>> ELSE <<>>)

\* StandardDataFormat.save(root_dir): the directory root_dir / name.
RECURSIVE save(_)
save(node) ==
    [name |-> node.name, files |-> SavedFiles(node),
     subdirs |-> [i \in DOMAIN node.children |-> save(node.children[i])]]

\* The files of a directory that a reader's file_pattern matches.
Matching(dir, stem, year) ==
    SelectSeq(dir.files, LAMBDA f : f.stem = stem /\ f.year = year)
YearsMatching(dir, stem) ==
    {dir.files[i].year : i \in {h \in DOMAIN dir.files : dir.files[h].stem = stem}} \ {0}

\* IntensitiesReader: r"techs_?([0-9]{4})?.csv", a table with the metadata
\* columns that load moves out of it.
ReadTechs(dir, year) ==
    IF Matching(dir, "techs", year) = <<>> THEN NoTechsFile
    ELSE LET csv == Matching(dir, "techs", year)[1].csv
         IN [table |-> read_csv(csv.table, TechIndexNames),
             meta |-> read_csv(csv.meta, TechIndexNames)]

\* IndicatorsReader: r"indicators_?([0-9]{4})?.csv"
ReadIndicators(dir, year) ==
    IF Matching(dir, "indicators", year) = <<>> THEN EmptyFrame
    ELSE read_csv(Matching(dir, "indicators", year)[1].csv, ResourceIndexNames)

\* TargetsReader: "targets.csv"
ReadTargets(dir) ==
    IF Matching(dir, "targets", 0) = <<>> THEN None
    ELSE read_csv(Matching(dir, "targets", 0)[1].csv, TechIndexNames)

\* The loop over the files of a directory in load's dfs.
ReadDirectory(dir) ==
    [name |-> dir.name,
     techs |-> ReadTechs(dir, 0),
     techs_yearly |-> [y \in YearsMatching(dir, "techs") |-> ReadTechs(dir, y)],
     indicators |-> ReadIndicators(dir, 0),
     indicators_yearly |->
        [y \in YearsMatching(dir, "indicators") |-> ReadIndicators(dir, y)],
     targets |-> ReadTargets(dir)]

\* load's dfs and load.
RECURSIVE load_dfs(_)
load_dfs(dir) ==
    LET subs == [i \in DOMAIN dir.subdirs |-> load_dfs(dir.subdirs[i])]
        raised == {i \in DOMAIN subs : ~IsNode(subs[i]) /\ subs[i] # Ignored}
    IN IF raised # {} THEN subs[CHOOSE i \in raised : \A h \in raised : i <= h]
       ELSE LoadNode(ReadDirectory(dir), SelectSeq(subs, IsNode), Len(dir.subdirs))

load(dir) == IF load_dfs(dir) = Ignored THEN AssertionError ELSE load_dfs(dir)

\* The hierarchies saved: those of the runs above, and leaves with a yearly
\* table.
SaveTrees ==
    PipeTrees
    \cup {PipeNode(0, t, <<>>) : t \in
            {[PipeLeafPlain EXCEPT
                !.indicators = IndicatorsTable(AllResourceRows, AllIndicators, 1)]}}
    \cup {StandardDataFormat(
            [name |-> 0,
             intensities |-> EmptyFrame, intensities_yearly |-> NoYearly,
             indicators |-> IndicatorsTable(AllResourceRows, AllIndicators, 1),
             indicators_yearly |->
                Yearly(y, IndicatorsTable(<<<<1>>>>, AllIndicators, 2)),
             targets |-> TargetsTable(<<T1>>, <<1, 2>>, 1),
             children |-> <<>>, tech_meta |-> EmptyFrame]) : y \in 1..NumYears}
    \cup {StandardDataFormat(
            [name |-> 0,
             intensities |-> IntensitiesTable(<<T1, T2>>, AllResources, 1),
             intensities_yearly |->
                Yearly(y, IntensitiesTable(<<T1>>, AllResources, 2)),
             indicators |-> IndicatorsTable(AllResourceRows, AllIndicators, 1),
             indicators_yearly |-> NoYearly,
             targets |-> TargetsTable(<<T1>>, <<1, 2>>, 1),
             children |-> <<>>, tech_meta |-> MetaTableOf(<<T1, T2>>, 1)]) :
                y \in 1..NumYears}

SaveInit ==
    /\ saveTree \in SaveTrees
    /\ saveDir = NoOutput
    /\ saveLoaded = NoOutput
    /\ CalcIdle /\ SdfIdle /\ FlatIdle /\ InterpIdle /\ OutIdle /\ PipeIdle

\* h.save(dir)
Save ==
    /\ saveDir = NoOutput
    /\ saveDir' = save(saveTree)
    /\ UNCHANGED <<saveTree, saveLoaded, calcVars, sdfVars, flatVars, interpVars,
                   outVars, pipeVars>>

\* load(dir / h.name)
Load ==
    /\ saveDir # NoOutput
    /\ saveLoaded = NoOutput
    /\ saveLoaded' = load(saveDir)
    /\ UNCHANGED <<saveTree, saveDir, calcVars, sdfVars, flatVars, interpVars,
                   outVars, pipeVars>>

SaveNext == Save \/ Load

SpecSave == SaveInit /\ [][SaveNext]_vars

----------------------------------------------------------------------------
(* Claims about the calculation engine (checked under SpecCalc) *)

TechSet(index) == Range(index)
TargetsWithinIntensities(inpt) ==
    TechSet(inpt.targets.index) \subseteq TechSet(inpt.intensities.index)
SameResourceSets(inpt) ==
    {row[1] : row \in Range(inpt.indicators.index)} = Range(inpt.intensities.columns)

\* C1: when the target technologies are a subset of the intensity
\* technologies, the returned required_resources holds, at every technology
\* and resource label, the intensity at that label times the target of that
\* technology (a technology without a target has no defined product: NaN),
\* and it has no other row or column.
C1_RequiredResources ==
    (calcOut.status = "ok" /\ TargetsWithinIntensities(calcIn)) =>
        /\ Range(calcOut.required_resources.index) = TechSet(calcIn.intensities.index)
        /\ calcOut.required_resources.columns = calcIn.intensities.columns
        /\ \A t \in TechSet(calcIn.intensities.index) :
             \A r \in Range(calcIn.intensities.columns) :
                Cell(calcOut.required_resources, t, r)
                    = Mul(Cell(calcIn.intensities, t, r), At(calcIn.targets, t))

\* C1 witness: calculate returned for an input whose targets list the
\* technologies in another order than the intensities do.
C1_Witness ==
    /\ calcOut.status = "ok"
    /\ TargetsWithinIntensities(calcIn)
    /\ Len(calcIn.targets.index) = 2
    /\ calcIn.targets.index # calcIn.intensities.index
    /\ \E t \in TechSet(calcIn.targets.index) : \E r \in Range(calcIn.intensities.columns) :
          Cell(calcOut.required_resources, t, r) # NaN

\* C2 (as claimed): whenever the indicator resources and the intensity
\* resource columns are the same set of labels, in whatever order, calculate
\* returns and the emissions cell labelled (k, tech, r) is
\* required_resources[tech, r] * indicators[r, k].
C2_EmissionsByLabel ==
    (calcOut # NoOutput /\ SameResourceSets(calcIn) /\ TargetsWithinIntensities(calcIn)) =>
        /\ calcOut.status = "ok"
        /\ \A k \in Range(calcIn.indicators.columns) :
             \A t \in TechSet(calcIn.intensities.index) :
               \A r \in Range(calcIn.intensities.columns) :
                  Cell(calcOut.emissions, <<k>> \o t, r)
                      = Mul(Cell(calcOut.required_resources, t, r),
                            Cell(calcIn.indicators, <<r>>, k))

----------------------------------------------------------------------------
(* Claims about the hierarchy model (checked under SpecSdf) *)

Constructed == sdfLast # Idle
Raised(result) == ~IsNode(result) /\ result.status = "ValueError"

ExactlyOneOfTargetsChildren(node) ==
    \/ (node.targets # None /\ node.children = <<>>)
    \/ (node.targets = None /\ node.children # <<>>)

\* C3: a StandardDataFormat construction raises ValueError unless exactly one
\* of "targets set" and "children non-empty" holds.
C3_LeafInvariant ==
    (Constructed /\ ~ExactlyOneOfTargetsChildren(sdfLast.node)) => Raised(sdfLast.result)

\* C3 witness: a directory with targets.csv and sub-directories was
\* constructed, and the constructor raised.
C3_Witness ==
    /\ Constructed
    /\ sdfLast.node.targets # None
    /\ sdfLast.node.children # <<>>
    /\ Raised(sdfLast.result)

YearlyIntroducesKeys(base, yearly) ==
    \E year \in DOMAIN yearly : \E key \in Range(yearly[year].index) :
        key \notin Range(base.index)

NewItemsInYearly(node) ==
    \/ YearlyIntroducesKeys(node.intensities, node.intensities_yearly)
    \/ YearlyIntroducesKeys(node.indicators, node.indicators_yearly)

----------------------------------------------------------------------------
(* Claims about the overlay resolver (checked under SpecFlatten) *)

Merged == flatNode # Idle /\ flatOut # ValueError

\* The table a node supplies for a year (its base table counts as year 0).
NodeTable(base, yearly, year) == IF year = 0 THEN base ELSE yearly[year]

\* The (year, key) rows a node itself supplies.
SuppliedRows(base, yearly) ==
    UNION {{<<year>> \o key : key \in Range(NodeTable(base, yearly, year).index)} :
              year \in {y \in {0} \cup DOMAIN yearly :
                           ~IsEmpty(NodeTable(base, yearly, y))}}

OverlayPrecedence(before, base, yearly, after) ==
    /\ \A row \in SuppliedRows(base, yearly) :
          /\ row \in Range(after.index)
          /\ \A col \in Range(NodeTable(base, yearly, row[1]).columns) :
                Cell(NodeTable(base, yearly, row[1]), Tail(row), col) # NaN =>
                    Cell(after, row, col) = Cell(NodeTable(base, yearly, row[1]), Tail(row), col)
    /\ \A row \in Range(before.index) \ SuppliedRows(base, yearly) :
          /\ row \in Range(after.index)
          /\ \A col \in Range(before.columns) : Cell(after, row, col) = Cell(before, row, col)

----------------------------------------------------------------------------
(* C6, C7: the dense tables of to_processable_input *)

Emitted == interpOut.status = "ok"
LeafBundle == interpBundle.yields[1][2]
TargetYears == SortNats(Range(LeafBundle.targets.columns))

\* The bundle's tables with the base year counted as the first target year.
Aliased(df) == RenameBaseYear(df, TargetYears[1])

\* The rows of a bundle table that belong to the dense grid: all of the
\* indicators, the target technologies of the intensities.
InGrid(df, row) ==
    df = LeafBundle.indicators \/ Tail(row) \in Range(LeafBundle.targets.index)

\* Every value the table `sparse` of the bundle holds at a target year is the
\* value of the same cell in the table emitted for that year.
ExactAtSupplied(sparse, dense(_)) ==
    \A i \in DOMAIN interpOut.inputs :
        \A row \in Range(sparse.index) :
            (row[1] = interpOut.inputs[i].year /\ InGrid(sparse, row)) =>
                \A col \in Range(sparse.columns) :
                    Cell(sparse, row, col) # NaN =>
                        Cell(dense(interpOut.inputs[i].inpt), Tail(row), col)
                            = Cell(sparse, row, col)

DenseIntensities(inpt) == inpt.intensities
DenseIndicators(inpt) == inpt.indicators

\* C6: for every target year y and every (technology, resource) pair for
\* which the leaf's resolved bundle holds a supplied value at year y, the
\* intensities of the ProcessableInput emitted for y hold exactly that value
\* at the pair; likewise the indicators per (resource, indicator) pair.
C6_ExactAtKnownPoints ==
    Emitted =>
        /\ ExactAtSupplied(LeafBundle.intensities, DenseIntensities)
        /\ ExactAtSupplied(LeafBundle.indicators, DenseIndicators)

\* Inputs were emitted for three years, the bundle supplies a value at the
\* last of them and none at the one before, whose cell was interpolated.
C6_Witness ==
    /\ Emitted
    /\ Len(interpOut.inputs) >= 3
    /\ \E row \in Range(LeafBundle.intensities.index), col \in Range(LeafBundle.intensities.columns) :
          LET last == interpOut.inputs[Len(interpOut.inputs)]
              middle == interpOut.inputs[Len(interpOut.inputs) - 1]
          IN /\ row[1] = last.year
             /\ Cell(LeafBundle.intensities, row, col) # NaN
             /\ Cell(last.inpt.intensities, Tail(row), col)
                    = Cell(LeafBundle.intensities, row, col)
             /\ <<middle.year>> \o Tail(row) \notin Range(LeafBundle.intensities.index)
             /\ Cell(middle.inpt.intensities, Tail(row), col) # NaN
             /\ Cell(middle.inpt.intensities, Tail(row), col)
                    # Cell(last.inpt.intensities, Tail(row), col)

\* The target years at which the pair (key, col) has a known sample.
KnownYears(sparse, key, col) ==
    {y \in Range(TargetYears) : Cell(Aliased(sparse), <<y>> \o key, col) # NaN}

Least(S) == CHOOSE y \in S : \A z \in S : y <= z
Greatest(S) == CHOOSE y \in S : \A z \in S : z <= y

DenseAt(dense(_), y, key, col) ==
    Cell(dense(interpOut.inputs[Pos(TargetYears, y)].inpt), key, col)

GridKeys(sparse) ==
    {Tail(row) : row \in {r \in Range(sparse.index) : InGrid(sparse, r)}}

\* No target year outside the known samples of a pair holds a value.
NotExtrapolated(sparse, dense(_)) ==
    \A key \in GridKeys(sparse), col \in Range(sparse.columns) :
        LET known == KnownYears(sparse, key, col)
        IN known # {} =>
              \A y \in Range(TargetYears) :
                  (y < Least(known) \/ y > Greatest(known)) =>
                      DenseAt(dense, y, key, col) = NaN

\* A target year before the first known sample of a pair holds no value; one
\* after the last known sample holds the value of the last known sample.
FilledForwardOnly(sparse, dense(_)) ==
    \A key \in GridKeys(sparse), col \in Range(sparse.columns) :
        LET known == KnownYears(sparse, key, col)
        IN known # {} =>
              \A y \in Range(TargetYears) :
                  /\ y < Least(known) => DenseAt(dense, y, key, col) = NaN
                  /\ y > Greatest(known) =>
                        DenseAt(dense, y, key, col)
                            = Cell(Aliased(sparse), <<Greatest(known)>> \o key, col)

\* C7 as stated: a target year before the first or after the last known
\* sample of a (technology, resource) or (resource, indicator) pair stays
\* undefined in the emitted tables.
C7_NoExtrapolation ==
    Emitted =>
        /\ NotExtrapolated(LeafBundle.intensities, DenseIntensities)
        /\ NotExtrapolated(LeafBundle.indicators, DenseIndicators)

\* C7, amended: a target year before the first known sample of a pair stays
\* undefined; a target year after the last known sample takes the value of
\* that last sample.  The known samples of a pair are the values the bundle
\* holds at target years, the base year counting as the first target year.
C7_ForwardFillOnly ==
    Emitted =>
        /\ FilledForwardOnly(LeafBundle.intensities, DenseIntensities)
        /\ FilledForwardOnly(LeafBundle.indicators, DenseIndicators)

\* Inputs were emitted and one pair has a single known sample with a target
\* year on either side of it: undefined before, the sample's value after.
C7_Witness ==
    /\ Emitted
    /\ \E key \in GridKeys(LeafBundle.intensities),
          col \in Range(LeafBundle.intensities.columns) :
          LET known == KnownYears(LeafBundle.intensities, key, col)
          IN /\ known # {}
             /\ \E y \in Range(TargetYears) :
                   y < Least(known) /\ DenseAt(DenseIntensities, y, key, col) = NaN
             /\ \E y \in Range(TargetYears) :
                   /\ y > Greatest(known)
                   /\ DenseAt(DenseIntensities, y, key, col) # NaN
                   /\ DenseAt(DenseIntensities, y, key, col)
                         = Cell(LeafBundle.intensities, <<Greatest(known)>> \o key, col)

----------------------------------------------------------------------------
(* C8, C9, C10: the result index *)

\* d[k] of a plain dict held in a query's result.
Item(result, k) ==
    IF result.status = "ok" /\ DictHas(result.value, k)
    THEN Ok(DictGet(result.value, k)) ELSE KeyError

\* The (path, year) pairs of the by-year map and of the by-path map.
PairsByYear(by_year) ==
    UNION {{<<by_year[i][2][j][1], by_year[i][1]>> : j \in DOMAIN by_year[i][2]} :
              i \in DOMAIN by_year}
PairsByPath(by_path) ==
    UNION {{<<by_path[i][1], by_path[i][2][j][1]>> : j \in DOMAIN by_path[i][2]} :
              i \in DOMAIN by_path}

SoleOutput(i) ==
    \A j \in DOMAIN outData :
        (outData[j].path = outData[i].path /\ outData[j].year = outData[i].year) => j = i

\* C8: for every output o handed to the constructor, index[o.path][o.year],
\* index[o.year][o.path], index[(o.path, o.year)] and index[(o.year, o.path)]
\* return one and the same output, which is o when no other element of the
\* list has o's path and year; and the by-year map and the by-path map hold
\* the same (path, year) pairs.
C8_LookupsAgree ==
    /\ \A i \in DOMAIN outData :
          LET o == outData[i]
              by_path_year == Item(getitem(outIndex, PathKey(o.path)).result, o.year)
              by_year_path == Item(getitem(outIndex, YearKey(o.year)).result, o.path)
              path_year ==
                  getitem(outIndex, TupleKey(PathKey(o.path), YearKey(o.year))).result
              year_path ==
                  getitem(outIndex, TupleKey(YearKey(o.year), PathKey(o.path))).result
          IN /\ by_path_year.status = "ok"
             /\ by_path_year = by_year_path
             /\ by_year_path = path_year
             /\ path_year = year_path
             /\ SoleOutput(i) => by_path_year.value = o
    /\ PairsByYear(outIndex.by_year) = PairsByPath(outIndex.by_path)

\* Two different outputs of one path and year were handed in, and the lookup
\* by (path, year) returned the later of them.
C8_Witness ==
    /\ Len(outData) = 2
    /\ outData[1] # outData[2]
    /\ ~SoleOutput(1)
    /\ outLast # NoOutput
    /\ outLast.call = [op |-> "getitem",
                       key |-> TupleKey(PathKey(outData[1].path), YearKey(outData[1].year))]
    /\ outLast.result = Ok(outData[2])

\* The queries that can be put to the index.
Calls ==
    {[op |-> "getitem", key |-> YearKey(y)] : y \in AskedYears}
    \cup {[op |-> "getitem", key |-> PathKey(p)] : p \in AskedPaths}
    \cup {[op |-> "getitem", key |-> TupleKey(YearKey(y), PathKey(p))] :
            y \in AskedYears, p \in AskedPaths}
    \cup {[op |-> "getitem", key |-> TupleKey(PathKey(p), YearKey(y))] :
            y \in AskedYears, p \in AskedPaths}
    \cup {[op |-> "emissions", path |-> p, indicator |-> k] :
            p \in AskedPaths, k \in Indicators}
    \cup {[op |-> "resources", path |-> p] : p \in AskedPaths}
    \cup {[op |-> "iter"]}

Answer(self, call) ==
    IF call.op = "getitem" THEN getitem(self, call.key).result
    ELSE IF call.op = "emissions" THEN emissions(self, call.path, call.indicator).result
    ELSE IF call.op = "resources" THEN resources(self, call.path).result
    ELSE Ok(iter(self))

\* C9 as stated: whatever queries were made since construction, keys() reports
\* the years and paths it reported at construction, the length is the same
\* and every query returns what it would have returned at construction.
C9_QueriesChangeNothing ==
    LET constructed == PipelineOutput(outData)
    IN /\ Range(keys(outIndex, "Year")) = Range(keys(constructed, "Year"))
       /\ Range(keys(outIndex, "Path")) = Range(keys(constructed, "Path"))
       /\ len(outIndex) = len(constructed)
       /\ \A call \in Calls : Answer(outIndex, call) = Answer(constructed, call)

\* The outputs of path p, and the one the index keeps for year y.
YearsAt(p) == {outData[i].year : i \in {j \in DOMAIN outData : outData[j].path = p}}
OutputAt(p, y) ==
    outData[Greatest({i \in DOMAIN outData : outData[i].path = p /\ outData[i].year = y})]

\* The keys of the rows of indicator k in an output's emissions.
KeysOfIndicator(o, k) ==
    {Tail(row) : row \in {r \in Range(o.emissions.index) : r[1] = k}}

\* The table holds one row per label of `labels` and no other row.
ExactRows(table, labels) ==
    /\ Range(table.index) = labels
    /\ Len(table.index) = Cardinality(labels)

\* C10: for a path p with outputs and an indicator k, emissions(p, k) holds,
\* for each year y with an output at p, that output's emissions rows of
\* indicator k labelled with y, and no other row; resources(p) holds each such
\* year's required_resources rows labelled with the year, and no other row.
C10_RowsOfEachYear ==
    \A p \in Paths, k \in Indicators :
        YearsAt(p) # {} =>
            LET e == emissions(outIndex, p, k).result
                r == resources(outIndex, p).result
            IN /\ e.status = "ok"
               /\ ExactRows(e.value,
                     UNION {{<<y>> \o key : key \in KeysOfIndicator(OutputAt(p, y), k)} :
                               y \in YearsAt(p)})
               /\ \A y \in YearsAt(p) :
                     \A key \in KeysOfIndicator(OutputAt(p, y), k) :
                        \A col \in Range(OutputAt(p, y).emissions.columns) :
                           Cell(e.value, <<y>> \o key, col)
                               = Cell(OutputAt(p, y).emissions, <<k>> \o key, col)
               /\ r.status = "ok"
               /\ ExactRows(r.value,
                     UNION {{<<y>> \o key :
                                key \in Range(OutputAt(p, y).required_resources.index)} :
                               y \in YearsAt(p)})
               /\ \A y \in YearsAt(p) :
                     \A key \in Range(OutputAt(p, y).required_resources.index) :
                        \A col \in Range(OutputAt(p, y).required_resources.columns) :
                           Cell(r.value, <<y>> \o key, col)
                               = Cell(OutputAt(p, y).required_resources, key, col)

\* emissions(p, k) was asked for a path with outputs in two years and
\* returned rows of both, as many as the two outputs have for the indicator.
C10_Witness ==
    /\ outLast # NoOutput
    /\ outLast.call.op = "emissions"
    /\ outLast.result.status = "ok"
    /\ Cardinality(YearsAt(outLast.call.path)) = 2
    /\ {row[1] : row \in Range(outLast.result.value.index)} = YearsAt(outLast.call.path)
    /\ Len(outLast.result.value.index) = 2 * Len(<<T1, T2>>)

----------------------------------------------------------------------------
(* C11: queries for a path above the leaves *)

\* The outputs stored at or under path p, one per (path, year).
OutputsUnder(p) ==
    {outData[i] : i \in {j \in DOMAIN outData :
        /\ Under(outData[j].path, p)
        /\ j = Greatest({h \in DOMAIN outData :
                            /\ outData[h].path = outData[j].path
                            /\ outData[h].year = outData[j].year})}}

LeavesBelowRoot == outData # <<>>

\* C11 as stated: for the root, which is not a leaf and has leaves under it,
\* emissions(root, k) and resources(root) return tables holding the rows of
\* every year of the outputs under the root.
C11_CoversPathsBelow ==
    LeavesBelowRoot =>
        \A k \in Indicators :
            LET e == emissions(outIndex, RootPath, k).result
                r == resources(outIndex, RootPath).result
            IN /\ e.status = "ok"
               /\ {row[1] : row \in Range(e.value.index)}
                     = {o.year : o \in OutputsUnder(RootPath)}
               /\ r.status = "ok"
               /\ {row[1] : row \in Range(r.value.index)}
                     = {o.year : o \in OutputsUnder(RootPath)}

\* C11, amended: the queries cover the outputs stored at exactly the given
\* path.  For a path that has no output of its own - an internal node with
\* leaves under it included - emissions(p, k) and resources(p) find an empty
\* dict and raise ValueError (pd.concat of nothing); no row of the outputs
\* under the path is returned.
C11_ExactPathOnly ==
    \A p \in AskedPaths :
        YearsAt(p) = {} =>
            /\ \A k \in Indicators : emissions(outIndex, p, k).result = ValueError
            /\ resources(outIndex, p).result = ValueError

\* emissions was asked for the root with outputs of two leaves under it, and
\* raised ValueError.
C11_Witness ==
    /\ outLast # NoOutput
    /\ outLast.call.op = "emissions"
    /\ outLast.call.path = RootPath
    /\ Cardinality({o.path : o \in OutputsUnder(RootPath)}) = 2
    /\ outLast.result = ValueError

----------------------------------------------------------------------------
(* Claims about the run (checked under SpecPipeline) *)

Returned == pipeResult.status = "ok"

\* C12: every PipelineOutput returned by pipeline() is indicator-uniform: all
\* the LabelledOutput values it was built from have the same set of indicator
\* names, and PipelineOutput.indicators is that set.
C12_IndicatorUniform ==
    Returned =>
        \A i \in DOMAIN pipeProcessed :
            OutputIndicators(pipeProcessed[i]) = pipeResult.output.indicators

Flattened == pipeFlat.status \notin {"idle", "none"}

\* The two failures validation reports with a ValueError: units that are not
\* unique within a Category, targets for a technology without intensities.
TechsOfIntensities(b) == {Tail(row) : row \in Range(b.intensities.index)}
FailsValidation(b) ==
    \/ ~validate_tech_units(b.tech_metadata)
    \/ ~(Range(b.targets.index) \subseteq TechsOfIntensities(b))

\* C13: flatten_hierarchy never hands on the bundle of a leaf whose
\* validation failed (units not unique in a category, or target technologies
\* that are not a subset of the intensity technologies): what it yields, a
\* (path, bundle) pair without any flag, is never such a leaf's bundle.
C13_FailedLeafNotYielded ==
    Flattened =>
        \A i \in DOMAIN pipeFlat.yields : ~FailsValidation(pipeFlat.yields[i][2])

\* The leaves of the hierarchy, their paths, and the bundle dfs has resolved
\* for each when it calls validate.
LeafCount == IF pipeTree.children = <<>> THEN 1 ELSE Len(pipeTree.children)
LeafLabel(i) ==
    IF pipeTree.children = <<>> THEN <<pipeTree.name>>
    ELSE <<pipeTree.name, pipeTree.children[i].name>>
Resolved(i) ==
    LET atRoot == DfsOverlay(pipeTree, InitialBundle)
    IN IF pipeTree.children = <<>> THEN WithTargets(pipeTree, atRoot)
       ELSE WithTargets(pipeTree.children[i], DfsOverlay(pipeTree.children[i], atRoot))

ResourcesOfIntensities(b) == Range(b.intensities.columns)
ResourcesOfIndicators(b) == {row[2] : row \in Range(b.indicators.index)}
ResourceMismatch(b) ==
    /\ ~FailsValidation(b)
    /\ ~IsEmpty(b.intensities) /\ ~IsEmpty(b.indicators)
    /\ ResourcesOfIntensities(b) # ResourcesOfIndicators(b)

YieldsOf(i) == {j \in DOMAIN pipeFlat.yields : pipeFlat.yields[j][1] = LeafLabel(i)}
NarrowedToCommon(i, j) ==
    LET common == ResourcesOfIntensities(Resolved(i)) \cap ResourcesOfIndicators(Resolved(i))
    IN /\ ResourcesOfIntensities(pipeFlat.yields[j][2]) = common
       /\ ResourcesOfIndicators(pipeFlat.yields[j][2]) = common
ProcessedWhenTaken(j) ==
    (pipeLast # NoOutput /\ pipeLast.at = j) =>
        /\ pipeLast.out.status = "ok"
        /\ Len(pipeProcessed) >= Len(pipeLast.out.inputs)
        /\ pipeResult.status \in {"none", "ok"}
\* flatten_hierarchy gives its caller the (path, bundle) pairs and the lines
\* it logs, nothing else.
ReportedToCaller(i) == LeafLabel(i) \in Range(pipeFlat.logged)

\* C14: when the resolved intensities and indicators of a leaf have different
\* resource sets, validation narrows both tables to the intersection, the
\* leaf is still yielded and processed, and the mismatch is reported to the
\* caller.
C14_MismatchNarrowedAndReported ==
    (Flattened /\ pipeFlat.status = "ok") =>
        \A i \in 1..LeafCount :
            ResourceMismatch(Resolved(i)) =>
                /\ YieldsOf(i) # {}
                /\ \A j \in YieldsOf(i) : NarrowedToCommon(i, j) /\ ProcessedWhenTaken(j)
                /\ ReportedToCaller(i)

\* A bundle has been taken from the generator and converted.
Converted == pipeLast # NoOutput /\ pipeLast.out.status = "ok"

TargetsAmongIntensities(inpt) ==
    Range(inpt.targets.index) \subseteq Range(inpt.intensities.index)
ResourcesAgree(inpt) ==
    {row[1] : row \in Range(inpt.indicators.index)} = Range(inpt.intensities.columns)

\* C15: every ProcessableInput that to_processable_input emits for a bundle
\* yielded by flatten_hierarchy (one whose validation raised and was only
\* logged included) has its target technologies among its intensity
\* technologies, and indicator resources equal to its intensity columns.
C15_EmittedInputsWellFormed ==
    Converted =>
        \A i \in DOMAIN pipeLast.out.inputs :
            /\ TargetsAmongIntensities(pipeLast.out.inputs[i].inpt)
            /\ ResourcesAgree(pipeLast.out.inputs[i].inpt)

\* A bundle has been taken from the generator.
Taken == pipeLast # NoOutput

YearsIn(df) == {row[1] : row \in Range(df.index)}
NoStartingPoint(b) ==
    \/ b.targets.columns = <<>>
    \/ 0 \notin YearsIn(b.intensities)
    \/ 0 \notin YearsIn(b.indicators)

OutputsOf(label) == {i \in DOMAIN pipeProcessed : pipeProcessed[i].path = label}

\* C16: to_processable_input fails for a leaf, emitting no ProcessableInput
\* for it, whenever the leaf's targets have no year columns or the bundle's
\* intensities or indicators have no data of the base year 0: for the bundle
\* the run hands it, and for every leaf's bundle as resolved.
C16_NoStartingPointFails ==
    /\ (Taken /\ NoStartingPoint(pipeLast.bundle)) =>
          /\ pipeLast.out.status \in {"IndexError", "AssertionError"}
          /\ OutputsOf(pipeLast.label) = {}
          /\ pipeResult = [status |-> pipeLast.out.status]
    /\ Flattened =>
          \A i \in 1..LeafCount :
              NoStartingPoint(Resolved(i)) =>
                  to_processable_input(Resolved(i)).status
                      \in {"IndexError", "AssertionError"}

C16_Witness ==
    /\ Taken
    /\ pipeLast.bundle.targets.columns = <<>>
    /\ 0 \in YearsIn(pipeLast.bundle.intensities)
    /\ 0 \in YearsIn(pipeLast.bundle.indicators)
    /\ pipeLast.out = AssertionError
    /\ pipeLast.at = 2
    /\ pipeResult = AssertionError

LeafNode(i) == IF pipeTree.children = <<>> THEN pipeTree ELSE pipeTree.children[i]
TargetYearsOf(i) == Range(LeafNode(i).targets.columns)
ResultsFor(label, year) ==
    {k \in DOMAIN pipeProcessed :
        pipeProcessed[k].path = label /\ pipeProcessed[k].year = year}

\* One input per target year of the leaf, years ascending, each with the
\* leaf's targets of that year.
OneInputPerYear(node, inputs) ==
    LET years == SortNats(Range(node.targets.columns))
    IN /\ [k \in DOMAIN inputs |-> inputs[k].year] = years
       /\ \A k \in DOMAIN inputs :
             /\ inputs[k].inpt.targets.index = node.targets.index
             /\ \A t \in DOMAIN node.targets.index :
                   \E c \in DOMAIN node.targets.columns :
                      /\ node.targets.columns[c] = years[k]
                      /\ inputs[k].inpt.targets.values[t] = node.targets.values[t][c]

----------------------------------------------------------------------------
(* Claims about calculate of calculation.py (checked under SpecCalcFlat) *)

CalculatedFlat == calcFlat.status = "ok"

\* The sum of f over the finite set S.
RECURSIVE SumOver(_, _)
SumOver(S, f) ==
    IF S = {} THEN 0
    ELSE LET x == CHOOSE x \in S : TRUE IN f[x] + SumOver(S \ {x}, f)

\* The technologies that require resource r, and how much each requires.
RequiringTechs(r) ==
    {t \in Range(calcFlat.required_resources.index) :
        Cell(calcFlat.required_resources, t, r) # NaN}
TotalRequired(r) ==
    SumOver(RequiringTechs(r),
            [t \in RequiringTechs(r) |-> Cell(calcFlat.required_resources, t, r)])
SharedResources ==
    Range(calcIn.intensities.columns) \cap {row[1] : row \in Range(calcIn.indicators.index)}

\* C17: calculate of calculation.py returns an emissions table indexed by
\* resource, with one column per indicator, in which emissions[r, k] is the
\* sum over the technologies of required_resources[tech, r], times
\* indicators[r, k].
C17_EmissionsPerResource ==
    CalculatedFlat =>
        /\ SharedResources \subseteq {row[1] : row \in Range(calcFlat.emissions.index)}
        /\ \A i \in DOMAIN calcFlat.emissions.index : Len(calcFlat.emissions.index[i]) = 1
        /\ Range(calcFlat.emissions.columns) = Range(calcIn.indicators.columns)
        /\ Len(calcFlat.emissions.columns) = Cardinality(Range(calcIn.indicators.columns))
        /\ \A r \in SharedResources : \A k \in Range(calcIn.indicators.columns) :
              Cell(calcFlat.emissions, <<r>>, k)
                  = TotalRequired(r) * Cell(calcIn.indicators, <<r>>, k)

C17_Witness ==
    /\ CalculatedFlat
    /\ Cardinality(SharedResources) = 2
    /\ \A r \in SharedResources : Cardinality(RequiringTechs(r)) = 2
    /\ calcIn.intensities.columns # [i \in DOMAIN calcIn.indicators.index |->
                                        calcIn.indicators.index[i][1]]

----------------------------------------------------------------------------
(* Claims about saving and re-loading (checked under SpecSave) *)

Reloaded == saveLoaded # NoOutput

\* C19: saving and re-loading is lossless: load(dir / h.name) after
\* h.save(dir) returns a tree equal to h in names, children, targets, base
\* and yearly intensities, base and yearly indicators, and technology
\* metadata.
C19_SaveLoadLossless == Reloaded => saveLoaded = saveTree

----------------------------------------------------------------------------
(* Claims about interpolation between samples (checked under SpecInterp) *)

\* All the years, target years or not, at which the resolved bundle holds a
\* value for the pair (key, col), the base year counted as the first target
\* year.
SampleYears(sparse, key, col) ==
    {row[1] : row \in {r \in Range(Aliased(sparse).index) :
                          Tail(r) = key /\ Cell(Aliased(sparse), r, col) # NaN}}

SampleAt(sparse, y, key, col) == Cell(Aliased(sparse), <<y>> \o key, col)

\* The value on the straight line through the samples nearest to y on
\* either side.
OnTheLine(sparse, y, key, col) ==
    LET y1 == Greatest({z \in SampleYears(sparse, key, col) : z < y})
        y2 == Least({z \in SampleYears(sparse, key, col) : z > y})
        v1 == SampleAt(sparse, y1, key, col)
        v2 == SampleAt(sparse, y2, key, col)
    IN v1 + ((v2 - v1) * (y - y1)) \div (y2 - y1)

\* C20: for a (technology, resource) pair and a target year y without a
\* supplied value, with y1 < y < y2 the nearest years on either side of y at
\* which the resolved bundle holds a value v1, v2 for the pair (target years
\* or not), the dense intensities hold v1 + (v2 - v1) * (y - y1) / (y2 - y1)
\* at y.
C20_LinearBetweenNearestSamples ==
    Emitted =>
        \A key \in GridKeys(LeafBundle.intensities),
           col \in Range(LeafBundle.intensities.columns) :
            \A y \in Range(TargetYears) :
                LET known == SampleYears(LeafBundle.intensities, key, col)
                IN (/\ y \notin known
                    /\ \E z \in known : z < y
                    /\ \E z \in known : z > y) =>
                        DenseAt(DenseIntensities, y, key, col)
                            = OnTheLine(LeafBundle.intensities, y, key, col)

----------------------------------------------------------------------------
(* C21: the dense indicators table of to_processable_input *)

\* to_processable_input ran on the leaf's bundle and got past its assertions.
PastAssertions ==
    /\ interpOut # NoOutput
    /\ interpOut # IndexError
    /\ interpOut # AssertionError

IndicatorResources == {Tail(row) : row \in Range(LeafBundle.indicators.index)}

\* What _interpolate_indicators makes of the bundle's indicators.
DenseIndicatorsTable ==
    _interpolate_indicators(
        Aliased(LeafBundle.indicators), TargetYears,
        [i \in DOMAIN LeafBundle.indicators.index |-> Tail(LeafBundle.indicators.index[i])])

\* The series of one (resource, indicator) pair over the target years,
\* interpolated on its own.
SeriesAlone(resource, indicator) ==
    InterpolateColumn(
        [yi \in DOMAIN TargetYears |->
            Cell(Aliased(LeafBundle.indicators), <<TargetYears[yi]>> \o resource, indicator)],
        TargetYears)

\* The bundle's indicators hold rows of more than one year.
SeveralIndicatorYears == Len(YearsOf(LeafBundle.indicators)) > 1

\* One row per (target year, distinct resource), every series interpolated on
\* its own.
DenseOverGrid ==
    /\ DenseIndicatorsTable # ValueError
    /\ ~HasDuplicates(DenseIndicatorsTable.index)
    /\ Range(DenseIndicatorsTable.index)
          = {<<y>> \o r : y \in Range(TargetYears), r \in IndicatorResources}
    /\ \A yi \in DOMAIN TargetYears, r \in IndicatorResources,
          k \in Range(LeafBundle.indicators.columns) :
          Cell(DenseIndicatorsTable, <<TargetYears[yi]>> \o r, k)
              = SeriesAlone(r, k)[yi]

\* C21: to_processable_input densifies the indicators over the grid (target
\* years x distinct resources): the dense table has exactly one row per
\* (target year, resource), each (resource, indicator) series is interpolated
\* on its own along the years, and this succeeds also when the bundle's
\* indicators hold data for more than one known year.
C21_IndicatorsOverGrid == PastAssertions => DenseOverGrid

\* The same restricted to bundles whose indicators hold the base year only.
C21_SingleYearOverGrid == (PastAssertions /\ ~SeveralIndicatorYears) => DenseOverGrid

----------------------------------------------------------------------------
(* C22: a leaf's bundle depends on its root-to-leaf path only (SpecPipeline) *)

\* The hierarchy cut down to the path from the root to leaf i.
PathOnly(i) ==
    IF pipeTree.children = <<>> THEN pipeTree
    ELSE [pipeTree EXCEPT !.children = <<pipeTree.children[i]>>]

\* The hierarchy with the siblings visited in the opposite order.
SiblingsReversed == [pipeTree EXCEPT !.children = Reverse(pipeTree.children)]

BundlesFor(flat, label) ==
    {flat.yields[j][2] : j \in {h \in DOMAIN flat.yields : flat.yields[h][1] = label}}

\* Whatever is yielded for leaf i is what the path alone yields, and what is
\* yielded for it with the siblings in the opposite order.
YieldedFromPathAlone(i) ==
    LET here == BundlesFor(pipeFlat, LeafLabel(i))
    IN /\ here \subseteq BundlesFor(flatten_hierarchy(PathOnly(i)), LeafLabel(i))
       /\ \A b \in here :
             \A c \in BundlesFor(flatten_hierarchy(SiblingsReversed), LeafLabel(i)) : b = c

\* C22: the bundle flatten_hierarchy yields for a leaf depends only on the
\* nodes on that leaf's root-to-leaf path: whatever sibling subtrees exist and
\* in whatever order siblings are visited, merging or validating one branch
\* never changes the bundle inherited by or yielded for another branch, and
\* the input hierarchy itself is left unchanged.
C22_LeafBundleFromPathOnly ==
    /\ [](Flattened => \A i \in 1..LeafCount : YieldedFromPathAlone(i))
    /\ [][pipeTree' = pipeTree]_vars

\* Two sibling leaves were yielded, the first of which brought tables of its
\* own that the second did not inherit.
C22_Witness ==
    /\ Flattened
    /\ Len(pipeTree.children) >= 2
    /\ Len(pipeFlat.yields) >= 2
    /\ ~IsEmpty(pipeTree.children[1].intensities)
    /\ ~IsEmpty(pipeTree.children[1].indicators)
    /\ IsEmpty(pipeTree.children[2].intensities)
    /\ pipeFlat.yields[1][2].intensities # pipeFlat.yields[2][2].intensities
    /\ pipeFlat.yields[2][2] \in BundlesFor(flatten_hierarchy(PathOnly(2)), LeafLabel(2))

----------------------------------------------------------------------------
(* C23: targets and technology metadata of a yielded bundle (SpecPipeline) *)

\* The technologies the path to leaf i has metadata for.
InheritedTechs(i) ==
    LET atRoot == DfsOverlay(pipeTree, InitialBundle)
        atLeaf == IF pipeTree.children = <<>> THEN atRoot
                  ELSE DfsOverlay(pipeTree.children[i], atRoot)
    IN Range(atLeaf.tech_metadata.index)

\* C23: in every bundle flatten_hierarchy yields for a leaf, the targets table
\* is the leaf's own targets and the technology-metadata table is keyed by
\* exactly the technologies present in those targets: no metadata row remains
\* for an inherited technology absent from the targets, and every target
\* technology has a row.
C23_MetadataKeyedByTargets ==
    Flattened =>
        \A i \in 1..LeafCount : \A j \in YieldsOf(i) :
            LET bundle == pipeFlat.yields[j][2]
            IN /\ bundle.targets = LeafNode(i).targets
               /\ Range(bundle.tech_metadata.index) = Range(bundle.targets.index)
               /\ ~HasDuplicates(bundle.tech_metadata.index)

\* A yielded leaf inherited metadata of a technology it has no targets for:
\* the row is gone, the rows of its target technologies are there.
C23_Witness ==
    /\ Flattened
    /\ \E i \in 1..LeafCount : \E j \in YieldsOf(i) :
          /\ InheritedTechs(i) \ Range(LeafNode(i).targets.index) # {}
          /\ Range(LeafNode(i).targets.index) # {}
          /\ Range(pipeFlat.yields[j][2].tech_metadata.index)
                = Range(LeafNode(i).targets.index)

\* A yielded leaf has targets for a technology no node of its path has
\* metadata for: the technology has a row all the same.
C23_RowWithoutMetadata ==
    /\ Flattened
    /\ \E i \in 1..LeafCount : \E j \in YieldsOf(i) :
          /\ Range(LeafNode(i).targets.index) \ InheritedTechs(i) # {}
          /\ Range(pipeFlat.yields[j][2].tech_metadata.index)
                = Range(LeafNode(i).targets.index)

----------------------------------------------------------------------------
(* C24: the indicator-names check of dfs (SpecFlatten) *)

Descended == flatNode # Idle

BothHaveIndicators == ~IsEmpty(flatNode.indicators) /\ ~IsEmpty(flatIn.indicators)

\* C24: flatten_hierarchy raises ValueError on reaching a node exactly when
\* that node has non-empty indicator tables, the bundle accumulated from its
\* ancestors already has non-empty indicators, and the two indicator column
\* sets differ; when the two column sets are equal (or either side is empty)
\* the node is merged without error.
C24_RaisesOnDifferentNameSets ==
    Descended =>
        (flatOut = ValueError <=>
            /\ BothHaveIndicators
            /\ Range(flatNode.indicators.columns) # Range(flatIn.indicators.columns))

\* The same with the columns compared as lists, in their order in the files.
C24_RaisesOnDifferentNameLists ==
    Descended =>
        (flatOut = ValueError <=>
            /\ BothHaveIndicators
            /\ flatNode.indicators.columns # flatIn.indicators.columns)

----------------------------------------------------------------------------
(* C25: the index and the order of the list it is built from (SpecIndex) *)

\* The lists that hold the outputs of `data` in some order.
Orderings(data) ==
    {[i \in DOMAIN data |-> data[p[i]]] : p \in Arrangements(DOMAIN data, Len(data))}

\* Two answers to one call are the same: dicts compared as Python compares
\* them, by their items whatever the order; tables and outputs as they are.
SameAnswer(call, a, b) ==
    IF call.op = "getitem" /\ "tuple" \notin DOMAIN call.key
    THEN a.status = b.status /\ Range(a.value) = Range(b.value)
    ELSE a = b

AnswersAlike(one, other) ==
    /\ \A call \in Calls \ {[op |-> "iter"]} :
          SameAnswer(call, Answer(one, call), Answer(other, call))
    /\ Range(keys(one, "Year")) = Range(keys(other, "Year"))
    /\ Range(keys(one, "Path")) = Range(keys(other, "Path"))
    /\ one.indicators = other.indicators

\* C25: building a PipelineOutput is insertion-order-independent: for any two
\* orderings of the same collection of LabelledOutput values, the two indexes
\* answer every lookup by year, by path and by (path, year), keys(),
\* indicators, emissions(path, indicator) and resources(path) identically.
C25_AnyOrderSameAnswers ==
    \A other \in Orderings(outData) :
        AnswersAlike(PipelineOutput(outData), PipelineOutput(other))

\* The outputs of each path come in the same order in both lists, and no two
\* outputs have the same path and year.
SameOrderWithinPaths(one, other) ==
    /\ \A i, j \in DOMAIN one :
          i # j => <<one[i].path, one[i].year>> # <<one[j].path, one[j].year>>
    /\ \A p \in Paths :
          SelectSeq(one, LAMBDA o : o.path = p) = SelectSeq(other, LAMBDA o : o.path = p)

\* The same for orderings that move whole leaves only.
C25_LeafOrderSameAnswers ==
    \A other \in Orderings(outData) :
        SameOrderWithinPaths(outData, other) =>
            AnswersAlike(PipelineOutput(outData), PipelineOutput(other))

----------------------------------------------------------------------------
(* C26: the base year renamed to the first target year (SpecInterp) *)

\* The hierarchy supplies a table of its own for the first target year.
FirstYearSupplied(df) == \E row \in Range(df.index) : row[1] = TargetYears[1]

NoSharedKeys ==
    /\ ~HasDuplicates(Aliased(LeafBundle.intensities).index)
    /\ ~HasDuplicates(Aliased(LeafBundle.indicators).index)

\* C26: after to_processable_input renames the baseline year 0 to the first
\* target year, no two rows of the intensities table share the same (year,
\* technology) key and no two rows of the indicators table share the same
\* (year, resource) key, also when the hierarchy supplies a year-specific
\* table for the first target year itself, in which case interpolation still
\* completes and a ProcessableInput is emitted for that year.
C26_BaseYearAliasUnique ==
    PastAssertions =>
        /\ NoSharedKeys
        /\ (FirstYearSupplied(LeafBundle.intensities) /\ ~SeveralIndicatorYears) =>
              /\ Emitted
              /\ interpOut.inputs[1].year = TargetYears[1]

\* The same for hierarchies without a table for the first target year.
C26_UniqueWithoutFirstYearTable ==
    (/\ PastAssertions
     /\ ~FirstYearSupplied(LeafBundle.intensities)
     /\ ~FirstYearSupplied(LeafBundle.indicators)) => NoSharedKeys

----------------------------------------------------------------------------
(* C27: unit failures of a leaf's validation (SpecPipeline) *)

\* The leaves dfs reached: all of them, or those up to the one it ended at.
Reached(i) ==
    \/ pipeFlat.status = "ok"
    \/ i <= Len(pipeFlat.yields) + 1

\* The metadata the path to leaf i accumulates, before it is trimmed.
InheritedMetadata(i) ==
    LET atRoot == DfsOverlay(pipeTree, InitialBundle)
    IN IF pipeTree.children = <<>> THEN atRoot.tech_metadata
       ELSE DfsOverlay(pipeTree.children[i], atRoot).tech_metadata

\* The distinct units the target technologies of a Category have.
TargetUnits(i, category, column) ==
    {Cell(InheritedMetadata(i), t, column) :
        t \in {u \in Range(LeafNode(i).targets.index) : u[1] = category}} \ {NaN}

\* Some Category among the target technologies has more than one distinct
\* Material Unit or more than one distinct Production Unit.
TargetUnitsDisagree(i) ==
    \E t \in Range(LeafNode(i).targets.index) :
        \/ Cardinality(TargetUnits(i, t[1], MaterialUnit)) > 1
        \/ Cardinality(TargetUnits(i, t[1], ProductionUnit)) > 1

\* validate() of the leaf's bundle raised the ValueError of validate_tech_units.
UnitFailureReported(i) ==
    /\ BundleValidate(Resolved(i)).raised = "ValueError"
    /\ ~validate_tech_units(Resolved(i).tech_metadata)

\* C27: a leaf's bundle validation reports a unit failure exactly when some
\* Category among the leaf's target technologies has more than one distinct
\* Material Unit or more than one distinct Production Unit; unit
\* disagreements among technologies that are not in the leaf's targets, and
\* categories whose units are all missing, do not make the leaf's validation
\* fail.
C27_UnitFailureOnDisagreement ==
    Flattened =>
        \A i \in 1..LeafCount :
            Reached(i) => (UnitFailureReported(i) <=> TargetUnitsDisagree(i))

\* The units of some Category among the target technologies are all missing.
TargetUnitsMissing(i) ==
    /\ ~IsEmpty(Resolved(i).tech_metadata)
    /\ \E t \in Range(LeafNode(i).targets.index) :
          \/ TargetUnits(i, t[1], MaterialUnit) = {}
          \/ TargetUnits(i, t[1], ProductionUnit) = {}

\* The same with the Categories without any unit counted as failures.
C27_UnitFailureUnlessOneUnit ==
    Flattened =>
        \A i \in 1..LeafCount :
            Reached(i) =>
                (UnitFailureReported(i) <=> (TargetUnitsDisagree(i) \/ TargetUnitsMissing(i)))

----------------------------------------------------------------------------
(* C28: the length of the index (SpecIndex) *)

\* The (path, year) pairs that a lookup by tuple finds an output for.
PairsReachable ==
    {pair \in AskedPaths \X AskedYears :
        getitem(outIndex, TupleKey(PathKey(pair[1]), YearKey(pair[2]))).result.status = "ok"}

\* C28: for any list of LabelledOutput values passed to the PipelineOutput
\* constructor (including a list in which two elements have the same path and
\* year), len(index) equals the number of outputs yielded by iterating the
\* index, and both equal the number of distinct (path, year) pairs reachable
\* through lookups.
C28_LengthCountsOutputs ==
    /\ len(outIndex) = Len(iter(outIndex))
    /\ len(outIndex) = Cardinality(PairsReachable)

NoTwoAlike ==
    \A i, j \in DOMAIN outData :
        i # j => <<outData[i].path, outData[i].year>> # <<outData[j].path, outData[j].year>>

\* The same for lists in which no two elements have the same path and year.
C28_LengthOfDistinctOutputs ==
    NoTwoAlike =>
        /\ len(outIndex) = Len(iter(outIndex))
        /\ len(outIndex) = Cardinality(PairsReachable)

\* Iteration and lookups agree on any list.
C28_IterationCountsPairs == Len(iter(outIndex)) = Cardinality(PairsReachable)

----------------------------------------------------------------------------
(* C29: the order of technologies and resources in the emitted inputs *)

Ascending(labels) ==
    \A i \in 1..(Len(labels) - 1) : LexLess(labels[i], labels[i + 1])

AscendingNats(seq) == \A i \in 1..(Len(seq) - 1) : seq[i] < seq[i + 1]

\* Technologies and resources ascending, the i-th resource column of the
\* intensities and the i-th resource row of the indicators the same resource.
InAscendingOrder(inpt) ==
    /\ Ascending(inpt.intensities.index)
    /\ AscendingNats(inpt.intensities.columns)
    /\ Ascending(inpt.indicators.index)
    /\ [i \in DOMAIN inpt.indicators.index |-> inpt.indicators.index[i][1]]
          = inpt.intensities.columns

\* calculate pairs every cell with the factors of its own resource and labels
\* every emissions row with its own technology.
PairedByLabel(inpt) ==
    LET out == calculate(inpt)
    IN /\ out.status = "ok"
       /\ \A k \in Range(inpt.indicators.columns) :
            \A t \in Range(inpt.intensities.index) :
              \A r \in Range(inpt.intensities.columns) :
                 Cell(out.emissions, <<k>> \o t, r)
                     = Mul(Mul(Cell(inpt.intensities, t, r), At(inpt.targets, t)),
                           Cell(inpt.indicators, <<r>>, k))

\* C29: every ProcessableInput emitted by to_processable_input lists
\* technologies in ascending (Category, Specific) order and resources in
\* ascending order, with the i-th resource column of intensities and the i-th
\* resource row of indicators naming the same resource, so that calculate's
\* position-based product pairs every required-resource cell with the
\* indicator factors of its own resource and labels every emissions row with
\* its own technology.
C29_EmittedInputsAligned ==
    Converted =>
        \A i \in DOMAIN pipeLast.out.inputs :
            /\ InAscendingOrder(pipeLast.out.inputs[i].inpt)
            /\ PairedByLabel(pipeLast.out.inputs[i].inpt)

\* The same for the bundles whose validation did not raise.
C29_ValidatedInputsAligned ==
    (Converted /\ pipeLast.label \notin Range(pipeFlat.logged)) =>
        \A i \in DOMAIN pipeLast.out.inputs :
            /\ InAscendingOrder(pipeLast.out.inputs[i].inpt)
            /\ PairedByLabel(pipeLast.out.inputs[i].inpt)

\* The same for a single leaf whose files list technologies, resources and
\* years in any order (SpecInterp).
C29_LeafInputsAligned ==
    (Emitted /\ interpBundle.logged = <<>>) =>
        \A i \in DOMAIN interpOut.inputs :
            /\ InAscendingOrder(interpOut.inputs[i].inpt)
            /\ PairedByLabel(interpOut.inputs[i].inpt)

----------------------------------------------------------------------------
(* C30: get_permutation (SpecInterp) *)

IsPermutation(perm, n) ==
    /\ DOMAIN perm = 0..(n - 1)
    /\ {perm[p] : p \in DOMAIN perm} = 0..(n - 1)

\* The entry at the row-major position of cell ((year y, key t), column r) is
\* the row-major position of the cell in the unstacked table, whose rows are
\* the years and whose columns are the (column, key) pairs.
ToUnstackedPosition(n_keys, n_columns, n_years) ==
    LET perm == get_permutation(n_keys, n_columns, n_years)
    IN /\ IsPermutation(perm, n_years * n_keys * n_columns)
       /\ \A y \in 0..(n_years - 1), t \in 0..(n_keys - 1), r \in 0..(n_columns - 1) :
             perm[(y * n_keys + t) * n_columns + r]
                 = y * n_columns * n_keys + r * n_keys + t

\* The series of one (key, column) pair of a bundle table over the target
\* years, interpolated on its own.
OwnSeries(sparse, key, col) ==
    InterpolateColumn(
        [yi \in DOMAIN TargetYears |->
            Cell(Aliased(sparse), <<TargetYears[yi]>> \o key, col)],
        TargetYears)

\* Every cell of the emitted tables holds the interpolated value of its own
\* (year, key, column).
OwnValues(sparse, dense(_)) ==
    \A yi \in DOMAIN TargetYears, key \in GridKeys(sparse), col \in Range(sparse.columns) :
        Cell(dense(interpOut.inputs[yi].inpt), key, col) = OwnSeries(sparse, key, col)[yi]

\* C30: in _interpolate_intensities, for all counts n_years, n_techs,
\* n_resources >= 1, get_permutation returns a permutation of
\* 0 .. n_years*n_techs*n_resources - 1 whose entry at the row-major position
\* of cell ((year y, tech t), resource r), (y*n_techs + t)*n_resources + r, is
\* y*n_resources*n_techs + r*n_techs + t, the row-major position of the same
\* cell in the year x (resource, tech) unstacked table, so every output cell
\* receives the interpolated value of its own (year, tech, resource); the
\* analogous statement holds for get_permutation in _interpolate_indicators
\* with (resource, indicator) in place of (tech, resource).
C30_PermutationToOwnCell ==
    PastAssertions =>
        /\ ToUnstackedPosition(Len(LeafBundle.targets.index),
                               Len(LeafBundle.intensities.columns), Len(TargetYears))
        /\ ToUnstackedPosition(Len(LeafBundle.indicators.index),
                               Len(LeafBundle.indicators.columns), Len(TargetYears))
        /\ \A n_keys \in 1..(NumTechs + 1), n_columns \in 1..(NumResources + 1) :
              ToUnstackedPosition(n_keys, n_columns, Len(TargetYears))
        /\ Emitted =>
              /\ OwnValues(LeafBundle.intensities, DenseIntensities)
              /\ OwnValues(LeafBundle.indicators, DenseIndicators)

\* Inputs were emitted for two technologies, two resources and at least two
\* years, some cell was interpolated, and the permutation moves positions.
C30_Witness ==
    /\ Emitted
    /\ Len(TargetYears) >= 2
    /\ Len(LeafBundle.targets.index) = 2
    /\ Len(LeafBundle.intensities.columns) = 2
    /\ get_permutation(2, 2, Len(TargetYears)) # get_permutation_identity(2, 2, Len(TargetYears))
    /\ OwnValues(LeafBundle.intensities, DenseIntensities)
    /\ \E yi \in DOMAIN TargetYears, key \in GridKeys(LeafBundle.intensities),
          col \in Range(LeafBundle.intensities.columns) :
          /\ Cell(Aliased(LeafBundle.intensities), <<TargetYears[yi]>> \o key, col) = NaN
          /\ Cell(interpOut.inputs[yi].inpt.intensities, key, col) # NaN

============================================================================
